---- MODULE Spec2Model ----
(***************************************************************************)
(* Match outcome simulation engine of Soccer-xG-Simulator                  *)
(* (src/Soccer xG Sim/xg_simulator.py): the expected-goals adjustment, the *)
(* single match realisation and the Monte Carlo aggregation.               *)
(*                                                                         *)
(* Python floats are IEEE-754 binary64.  The arithmetic below is binary64  *)
(* with round-to-nearest-even, computed on arbitrary-size naturals because *)
(* a 53-bit significand does not fit TLC's integers.                       *)
(***************************************************************************)
EXTENDS Integers, Sequences, FiniteSets, TLC

(***************************************************************************)
(* Arbitrary-size naturals: little-endian sequences of limbs, base 2^14,   *)
(* without leading zero limbs (zero is the empty sequence).  The           *)
(* operations propagate carries by look-ahead, so none of them recurses.   *)
(* An operator that uses an argument more than once binds its value first  *)
(* (CHOOSE r \in {body : v \in {arg}} : TRUE), so that the argument is     *)
(* evaluated once.                                                         *)
(***************************************************************************)
Base == 2^14

Limb(a, i) == IF 1 <= i /\ i <= Len(a) THEN a[i] ELSE 0

Top(a) == CHOOSE t \in 0..Len(a) :
              (t = 0 \/ a[t] # 0) /\ \A j \in (t + 1)..Len(a) : a[j] = 0

Trim(a0) == CHOOSE r \in {SubSeq(a, 1, Top(a)) : a \in {a0 \o <<>>}} : TRUE

\* 0 <= x < 2^31
BigOfInt(x) == Trim(<<x % Base, (x \div Base) % Base, x \div (Base * Base)>>)

\* the natural whose base-2^14 columns, each at most 2 * Base - 2, are s0
Ripple(s0) ==
    CHOOSE r \in {
        Trim([i \in 1..(Len(s) + 1) |->
                (Limb(s, i)
                 + (IF \E j \in 1..(i - 1) :
                         s[j] >= Base /\ \A k \in (j + 1)..(i - 1) : s[k] = Base - 1
                    THEN 1 ELSE 0)) % Base])
        : s \in {s0 \o <<>>}} : TRUE

BigAdd(a0, b0) ==
    CHOOSE r \in {
        Ripple([i \in 1..(IF Len(a) > Len(b) THEN Len(a) ELSE Len(b)) |->
                    Limb(a, i) + Limb(b, i)])
        : a \in {a0}, b \in {b0}} : TRUE

\* a - b for a >= b
BigSub(a0, b0) ==
    CHOOSE r \in {
        Trim([i \in 1..Len(a) |->
                (Limb(a, i) - Limb(b, i)
                 - (IF \E j \in 1..(i - 1) :
                         Limb(a, j) < Limb(b, j)
                         /\ \A k \in (j + 1)..(i - 1) : Limb(a, k) = Limb(b, k)
                    THEN 1 ELSE 0)
                 + Base) % Base])
        : a \in {a0}, b \in {b0}} : TRUE

\* -1, 0 or 1 as a < b, a = b, a > b
BigCmp(a0, b0) ==
    CHOOSE r \in {
        IF a = b THEN 0
        ELSE IF \E i \in 1..(Len(a) + Len(b)) :
                    Limb(a, i) > Limb(b, i)
                    /\ \A j \in (i + 1)..(Len(a) + Len(b)) : Limb(a, j) = Limb(b, j)
        THEN 1 ELSE -1
        : a \in {a0}, b \in {b0}} : TRUE

\* one round of carrying for columns below 2^31
Carry(cols0) ==
    CHOOSE r \in {
        [i \in 1..(Len(cols) + 1) |->
            (Limb(cols, i) % Base) + (Limb(cols, i - 1) \div Base)] \o <<>>
        : cols \in {cols0 \o <<>>}} : TRUE

\* the natural whose base-2^14 columns (each below 2^31) are cols
Normalize(cols) == Ripple(Carry(Carry(cols)))

\* a * k for 0 <= k <= Base
BigMulSmall(a0, k0) ==
    CHOOSE r \in {Normalize([i \in 1..Len(a) |-> a[i] * k]) : a \in {a0}, k \in {k0}} : TRUE

\* a * Base^n
ShiftLimbs(a, n) == Trim([i \in 1..n |-> 0] \o a)

\* a * b for a of at most four limbs
BigMul(a0, b0) ==
    CHOOSE r \in {
        Normalize([k \in 1..(Len(b) + 3) |->
            (Limb(a, 1) * Limb(b, k)) + (Limb(a, 2) * Limb(b, k - 1))
            + (Limb(a, 3) * Limb(b, k - 2)) + (Limb(a, 4) * Limb(b, k - 3))])
        : a \in {a0}, b \in {b0}} : TRUE

BitLenSmall(x0) ==
    CHOOSE r \in {
        CHOOSE k \in 0..14 : x < (2^k) /\ (k = 0 \/ (2^(k - 1)) <= x)
        : x \in {x0}} : TRUE

BitLen(a0) ==
    CHOOSE r \in {
        IF a = <<>> THEN 0 ELSE ((Len(a) - 1) * 14) + BitLenSmall(a[Len(a)])
        : a \in {a0}} : TRUE

\* a * 2^t
Shl(a, t0) ==
    CHOOSE r \in {ShiftLimbs(BigMulSmall(a, 2^(t % 14)), t \div 14) : t \in {t0}} : TRUE

\* floor(a / 2^t)
Shr(a0, t0) ==
    CHOOSE r \in {
        Trim([i \in 1..(Len(a) - (t \div 14)) |->
                (Limb(a, i + (t \div 14)) \div (2^(t % 14)))
                + ((Limb(a, i + (t \div 14) + 1) % (2^(t % 14))) * (2^(14 - (t % 14))))])
        : a \in {a0}, t \in {t0}} : TRUE

(***************************************************************************)
(* binary64 values: (-1)^sign * man * 2^exp with man = 0 (the empty        *)
(* sequence, exp 0) or 2^52 <= man < 2^53.  The inputs of the model keep    *)
(* every result far from the subnormal and the overflow range.             *)
(***************************************************************************)
Zero(s) == [sign |-> s, man |-> <<>>, exp |-> 0]

IsZero(x) == x.man = <<>>

\* q or q + 1: q is n with its low bits (L - 53 of them) dropped, rounded to
\* nearest, ties to even; sticky says that n itself lost a nonzero fraction
RoundNearest(n, L, sticky, q0) ==
    CHOOSE r \in {
        IF c = 1 \/ (c = 0 /\ (sticky \/ q[1] % 2 = 1)) THEN BigAdd(q, <<1>>) ELSE q
        : q \in {q0},
          c \in {BigCmp(BigSub(n, Shl(q0, L - 53)), Shl(<<1>>, L - 54))}} : TRUE

\* q * 2^e for 2^52 <= q <= 2^53
Pack(s, q0, e) ==
    CHOOSE r \in {
        IF BitLen(q) = 54
        THEN [sign |-> s, man |-> Shr(q, 1), exp |-> e + 1]
        ELSE [sign |-> s, man |-> q, exp |-> e]
        : q \in {q0}} : TRUE

\* n * 2^e (plus less than one unit of n when sticky), rounded to nearest even
RoundPack(s0, n0, e0, sticky0) ==
    CHOOSE r \in {
        IF L = 0 THEN Zero(s)
        ELSE IF L <= 53
        THEN [sign |-> s, man |-> Shl(n, 53 - L), exp |-> e - (53 - L)]
        ELSE Pack(s, RoundNearest(n, L, sticky, Shr(n, L - 53)), e + (L - 53))
        : s \in {s0}, n \in {n0}, e \in {e0}, sticky \in {sticky0},
          L \in {BitLen(n0)}} : TRUE

\* int -> float (exact for the integers of the model)
FromInt(n) ==
    RoundPack(IF n < 0 THEN 1 ELSE 0, BigOfInt(IF n < 0 THEN -n ELSE n), 0, FALSE)

\* float * float
FMul(x0, y0) ==
    CHOOSE r \in {
        IF IsZero(x) \/ IsZero(y) THEN Zero((x.sign + y.sign) % 2)
        ELSE RoundPack((x.sign + y.sign) % 2, BigMul(x.man, y.man), x.exp + y.exp, FALSE)
        : x \in {x0}, y \in {y0}} : TRUE

\* q minus one when q * y exceeds r1
Fix(q0, y, r1) ==
    CHOOSE r \in {
        IF BigCmp(BigMulSmall(y, q), r1) > 0 THEN q - 1 ELSE q
        : q \in {q0}} : TRUE

\* The estimate of a quotient digit from the top limbs of r1 and y
Estimate(r1, y) ==
    IF ((Limb(r1, 5) * Base) + Limb(r1, 4)) \div y[4] > Base - 1
    THEN Base - 1
    ELSE ((Limb(r1, 5) * Base) + Limb(r1, 4)) \div y[4]

\* One base-2^14 digit of a long division (Knuth's algorithm D): for r < y and
\* y of four limbs with its top limb >= 2^13, the digit floor(r * 2^14 / y) and
\* the remainder.  The estimate from the top limbs is at most 2 too large.
DivDigit(r0, y0) ==
    CHOOSE r \in {
        CHOOSE d \in {
            [digit |-> q, rem |-> BigSub(r1, BigMulSmall(y, q))]
            : q \in {Fix(Fix(Fix(Estimate(r1, y), y, r1), y, r1), y, r1)}} : TRUE
        : r1 \in {ShiftLimbs(r0, 1)}, y \in {y0}} : TRUE

\* the long division st (digits so far, least significant first; remainder)
\* continued by one digit
DivStep(st0, y) ==
    CHOOSE r \in {
        [q |-> <<d.digit>> \o st.q, rem |-> d.rem]
        : st \in {st0}, d \in {DivDigit(st0.rem, y)}} : TRUE

\* 56 or 57 quotient bits of (xm * 2^56) / ym and the remainder, for yn = ym * 2^3
LongDiv(xm, ym, yn) ==
    DivStep(DivStep(DivStep(DivStep(
        IF BigCmp(xm, ym) >= 0
        THEN [q |-> <<1>>, rem |-> Shl(BigSub(xm, ym), 3)]
        ELSE [q |-> <<>>, rem |-> Shl(xm, 3)],
        yn), yn), yn), yn)

\* float / float for a divisor that is not zero (Python raises on zero)
FDiv(x0, y0) ==
    CHOOSE r \in {
        IF IsZero(x) THEN Zero((x.sign + y.sign) % 2)
        ELSE CHOOSE p \in {
                RoundPack((x.sign + y.sign) % 2, Trim(st.q),
                          x.exp - y.exp - 56, st.rem # <<>>)
                : st \in {LongDiv(x.man, y.man, yn)}} : TRUE
        : x \in {x0}, y \in {y0}, yn \in {Shl(y0.man, 3)}} : TRUE

\* the float a decimal literal n / d denotes (correctly rounded)
Dec(n, d) == FDiv(FromInt(n), FromInt(d))

\* x < y
FLt(x, y) ==
    IF IsZero(x) /\ IsZero(y) THEN FALSE
    ELSE IF IsZero(x) THEN y.sign = 0
    ELSE IF IsZero(y) THEN x.sign = 1
    ELSE IF x.sign # y.sign THEN x.sign = 1
    ELSE LET magLt(a, b) == a.exp < b.exp \/ (a.exp = b.exp /\ BigCmp(a.man, b.man) < 0)
         IN  IF x.sign = 0 THEN magLt(x, y) ELSE magLt(y, x)

\* float + float for operands of the same sign
FAdd(x0, y0) ==
    CHOOSE r \in {
        IF IsZero(x) THEN y
        ELSE IF IsZero(y) THEN x
        ELSE CHOOSE p \in {
                IF d > 60 THEN hi
                ELSE RoundPack(hi.sign, BigAdd(Shl(hi.man, d), lo.man), lo.exp, FALSE)
                : hi \in {IF x.exp >= y.exp THEN x ELSE y},
                  lo \in {IF x.exp >= y.exp THEN y ELSE x},
                  d \in {IF x.exp >= y.exp THEN x.exp - y.exp ELSE y.exp - x.exp}} : TRUE
        : x \in {x0}, y \in {y0}} : TRUE

\* 1 + x + x^2/2! + ... continued from the term x^(n-1)/(n-1)! until a term no
\* longer changes the sum
RECURSIVE ExpSeries(_, _, _, _)
ExpSeries(x, n, term, sum) ==
    CHOOSE r \in {
        CHOOSE p \in {
            IF s = sum THEN sum ELSE ExpSeries(x, n + 1, t, s)
            : s \in {FAdd(sum, t)}} : TRUE
        : t \in {FDiv(FMul(term, x), FromInt(n))}} : TRUE

\* e^x for x > 0, to within a few units in the last place
FExp(x0) == CHOOSE r \in {ExpSeries(x, 1, FromInt(1), FromInt(1)) : x \in {x0}} : TRUE

(***************************************************************************)
(* Python values used by the program                                       *)
(***************************************************************************)
\* None
None == [None |-> TRUE]

\* dict.get(k, default) and d[k] = d.get(k, 0) + 1 on a dict, kept as the
\* sequence of its <<key, value>> items in insertion order
DictIndex(d, k) ==
    IF \E j \in 1..Len(d) : d[j][1] = k
    THEN CHOOSE j \in 1..Len(d) : d[j][1] = k
    ELSE 0

DictGet(d, k, default) == IF DictIndex(d, k) = 0 THEN default ELSE d[DictIndex(d, k)][2]

\* d[k] = 1 where the code increments
DictInc_SetsOne(d, k) ==
    IF DictIndex(d, k) = 0
    THEN Append(d, <<k, 1>>)
    ELSE [d EXCEPT ![DictIndex(d, k)] = <<k, 1>>]

DictInc(d, k) ==
    IF DictIndex(d, k) = 0
    THEN Append(d, <<k, DictGet(d, k, 0) + 1>>)
    ELSE [d EXCEPT ![DictIndex(d, k)] = <<k, DictGet(d, k, 0) + 1>>]

RECURSIVE SumValues(_)
SumValues(d) == IF d = <<>> THEN 0 ELSE d[1][2] + SumValues(Tail(d))

\* a / b on Python numbers: ZeroDivisionError for a zero divisor
PyDiv(a, b) ==
    CHOOSE r \in {
        IF IsZero(y) THEN [err |-> "ZeroDivisionError"]
        ELSE [err |-> "None", val |-> FDiv(x, y)]
        : x \in {a}, y \in {b}} : TRUE

(***************************************************************************)
(* Team (src/soccer_xg_sim_dlp.py): the fields the engine reads.  The      *)
(* statistics are the floats the JSON loader parsed from decimal text,     *)
(* given here in hundredths.                                               *)
(***************************************************************************)
Team(name, season, avg, eff, def) ==
    [name |-> name, season |-> season,
     avg_xg_for |-> Dec(avg, 100),
     xg_efficiency |-> Dec(eff, 100),
     defensive_efficiency |-> Dec(def, 100)]

get_display_name(team) == team.name \o " (" \o team.season \o ")"

(***************************************************************************)
(* class Match                                                             *)
(***************************************************************************)
\* the literal 1.2 and the literal 1.0
HOME_ADVANTAGE == Dec(12, 10)
ONE == FromInt(1)

\* Match.__init__
Match(home_team, away_team, neutral_venue) ==
    [home_team |-> home_team, away_team |-> away_team,
     home_goals |-> 0, away_goals |-> 0, played |-> FALSE,
     neutral_venue |-> neutral_venue,
     home_advantage_factor |-> IF neutral_venue THEN ONE ELSE HOME_ADVANTAGE]

\* the venue flag switched without the factor
set_neutral_venue_KeepsFactor(m, is_neutral) == [m EXCEPT !.neutral_venue = is_neutral]

\* Match.set_neutral_venue
set_neutral_venue(m, is_neutral) ==
    [m EXCEPT !.neutral_venue = is_neutral,
              !.home_advantage_factor = IF is_neutral THEN ONE ELSE HOME_ADVANTAGE]

\* the away defence multiplied by the home advantage, not by its reciprocal
ExpectedHomeGoals_DefenceTimesAdvantage(m) ==
    PyDiv(FMul(FMul(m.home_team.avg_xg_for, m.home_advantage_factor),
               m.home_team.xg_efficiency),
          IF ~m.neutral_venue
          THEN FMul(m.away_team.defensive_efficiency, m.home_advantage_factor)
          ELSE m.away_team.defensive_efficiency)

\* Match.simulate up to the Poisson draws: the two expected-goal rates, or the
\* ZeroDivisionError of the first division by a zero defensive factor
ExpectedHomeGoals(m) ==
    LET base_home_xg            == m.home_team.avg_xg_for
        home_xg_with_advantage  == FMul(base_home_xg, m.home_advantage_factor)
        home_xg_with_efficiency == FMul(home_xg_with_advantage, m.home_team.xg_efficiency)
        away_defensive_factor   ==
            IF ~m.neutral_venue
            THEN FMul(m.away_team.defensive_efficiency,
                      FDiv(ONE, m.home_advantage_factor))
            ELSE m.away_team.defensive_efficiency
    IN  PyDiv(home_xg_with_efficiency, away_defensive_factor)

\* the away attack left without the away penalty
ExpectedAwayGoals_NoDisadvantage(m) ==
    PyDiv(FMul(m.away_team.avg_xg_for, m.away_team.xg_efficiency),
          IF ~m.neutral_venue
          THEN FMul(m.home_team.defensive_efficiency, m.home_advantage_factor)
          ELSE m.home_team.defensive_efficiency)

ExpectedAwayGoals(m) ==
    LET base_away_xg == m.away_team.avg_xg_for
        away_xg_with_disadvantage ==
            IF ~m.neutral_venue
            THEN FDiv(base_away_xg, m.home_advantage_factor)
            ELSE base_away_xg
        away_xg_with_efficiency == FMul(away_xg_with_disadvantage, m.away_team.xg_efficiency)
        home_defensive_factor ==
            IF ~m.neutral_venue
            THEN FMul(m.home_team.defensive_efficiency, m.home_advantage_factor)
            ELSE m.home_team.defensive_efficiency
    IN  PyDiv(away_xg_with_efficiency, home_defensive_factor)

\* the home rate is computed first, so its error is the one raised
ExpectedGoals(m) ==
    CHOOSE r \in {
        IF h.err # "None" THEN [err |-> h.err]
        ELSE IF a.err # "None" THEN [err |-> a.err]
        ELSE [err |-> "None", home |-> h.val, away |-> a.val]
        : h \in {ExpectedHomeGoals(m)}, a \in {ExpectedAwayGoals(m)}} : TRUE

(***************************************************************************)
(* np.random.poisson(lam): ValueError for lam < 0 (-0.0 is not below 0),   *)
(* 0 for lam = 0, otherwise any count; the model draws counts up to        *)
(* MaxGoals.                                                               *)
(***************************************************************************)
MaxGoals == 1

PoissonRaises(lam) == FLt(lam, Zero(0))

PoissonDraws(lam) == IF IsZero(lam) THEN {0} ELSE 0..MaxGoals

\* the home rate stored in the home Team as its avg_xg_for
simulate_WritesTeam(m, eg) ==
    IF eg.err # "None"
    THEN {[err |-> eg.err, match |-> m, draws |-> 0, lambdas |-> eg]}
    ELSE IF PoissonRaises(eg.home)
    THEN {[err |-> "ValueError", match |-> m, draws |-> 0, lambdas |-> eg]}
    ELSE IF PoissonRaises(eg.away)
    THEN {[err |-> "ValueError",
           match |-> [m EXCEPT !.home_goals = hg, !.home_team.avg_xg_for = eg.home],
           draws |-> 1, lambdas |-> eg] : hg \in PoissonDraws(eg.home)}
    ELSE {[err |-> "None",
           match |-> [m EXCEPT !.home_goals = hg, !.away_goals = ag, !.played = TRUE,
                               !.home_team.avg_xg_for = eg.home],
           draws |-> 2, lambdas |-> eg]
          : hg \in PoissonDraws(eg.home), ag \in PoissonDraws(eg.away)}

\* Match.simulate on the Match m: every way the call can end.  err is the
\* exception (or "None"), match the Match afterwards, draws the number of
\* Poisson draws made, lambdas the rates (eg) the call computed.
simulate(m, eg) ==
    IF eg.err # "None"
    THEN {[err |-> eg.err, match |-> m, draws |-> 0, lambdas |-> eg]}
    ELSE IF PoissonRaises(eg.home)
    THEN {[err |-> "ValueError", match |-> m, draws |-> 0, lambdas |-> eg]}
    ELSE IF PoissonRaises(eg.away)
    THEN {[err |-> "ValueError", match |-> [m EXCEPT !.home_goals = hg],
           draws |-> 1, lambdas |-> eg] : hg \in PoissonDraws(eg.home)}
    ELSE {[err |-> "None",
           match |-> [m EXCEPT !.home_goals = hg, !.away_goals = ag, !.played = TRUE],
           draws |-> 2, lambdas |-> eg]
          : hg \in PoissonDraws(eg.home), ag \in PoissonDraws(eg.away)}

\* a level score classified as a home win
Result_TieIsHomeWin(home_goals, away_goals) ==
    IF home_goals >= away_goals THEN "Home Win" ELSE "Away Win"

\* the result names of Match.get_result
Result(home_goals, away_goals) ==
    IF home_goals > away_goals THEN "Home Win"
    ELSE IF away_goals > home_goals THEN "Away Win" ELSE "Draw"

ScoreLine(home_goals, away_goals) == ToString(home_goals) \o "-" \o ToString(away_goals)

\* a Match taken as not played while its score is 0-0
get_result_ZeroScoreNotPlayed(m) ==
    IF m.home_goals = 0 /\ m.away_goals = 0
    THEN [err |-> "ValueError"]
    ELSE [err |-> "None",
          val |-> [home_team |-> get_display_name(m.home_team),
                   away_team |-> get_display_name(m.away_team),
                   home_goals |-> m.home_goals,
                   away_goals |-> m.away_goals,
                   result |-> Result(m.home_goals, m.away_goals),
                   score_line |-> ScoreLine(m.home_goals, m.away_goals)]]

\* Match.get_result: ValueError for a Match not played, otherwise the dict
get_result(m) ==
    IF ~m.played
    THEN [err |-> "ValueError"]
    ELSE [err |-> "None",
          val |-> [home_team |-> get_display_name(m.home_team),
                   away_team |-> get_display_name(m.away_team),
                   home_goals |-> m.home_goals,
                   away_goals |-> m.away_goals,
                   result |-> Result(m.home_goals, m.away_goals),
                   score_line |-> ScoreLine(m.home_goals, m.away_goals)]]

NotPlayedYet == "Match not played yet"

\* Match.get_score_string
get_score_string(m) ==
    IF ~m.played
    THEN NotPlayedYet
    ELSE m.home_team.name \o " " \o ToString(m.home_goals) \o " - "
            \o ToString(m.away_goals) \o " " \o m.away_team.name

(***************************************************************************)
(* calculate_expected_goals                                                *)
(***************************************************************************)
\* the home advantage applied to the attack only
calculate_expected_goals_AttackOnly(team, opponent, is_home, neutral_venue) ==
    PyDiv(FMul(IF ~neutral_venue
               THEN (IF is_home THEN FMul(team.avg_xg_for, HOME_ADVANTAGE)
                                ELSE FDiv(team.avg_xg_for, HOME_ADVANTAGE))
               ELSE team.avg_xg_for,
               team.xg_efficiency),
          opponent.defensive_efficiency)

\* the home advantage applied at a neutral venue too
calculate_expected_goals_NeutralIgnored(team, opponent, is_home, neutral_venue) ==
    PyDiv(FMul(IF is_home THEN FMul(team.avg_xg_for, HOME_ADVANTAGE)
                          ELSE FDiv(team.avg_xg_for, HOME_ADVANTAGE),
               team.xg_efficiency),
          IF is_home THEN FDiv(opponent.defensive_efficiency, HOME_ADVANTAGE)
                     ELSE FMul(opponent.defensive_efficiency, HOME_ADVANTAGE))

\* every team treated as the away side
calculate_expected_goals_IsHomeIgnored(team, opponent, is_home, neutral_venue) ==
    PyDiv(FMul(IF ~neutral_venue THEN FDiv(team.avg_xg_for, HOME_ADVANTAGE)
                                 ELSE team.avg_xg_for,
               team.xg_efficiency),
          IF ~neutral_venue THEN FMul(opponent.defensive_efficiency, HOME_ADVANTAGE)
                            ELSE opponent.defensive_efficiency)

\* the attack divided by the efficiency it should be multiplied by
calculate_expected_goals_EfficiencyDivides(team, opponent, is_home, neutral_venue) ==
    PyDiv(FDiv(IF ~neutral_venue
               THEN (IF is_home THEN FMul(team.avg_xg_for, HOME_ADVANTAGE)
                                ELSE FDiv(team.avg_xg_for, HOME_ADVANTAGE))
               ELSE team.avg_xg_for,
               team.xg_efficiency),
          IF ~neutral_venue
          THEN (IF is_home THEN FDiv(opponent.defensive_efficiency, HOME_ADVANTAGE)
                           ELSE FMul(opponent.defensive_efficiency, HOME_ADVANTAGE))
          ELSE opponent.defensive_efficiency)

\* the attack multiplied by the defensive factor it should be divided by
calculate_expected_goals_DefenceMultiplies(team, opponent, is_home, neutral_venue) ==
    [err |-> "None",
     val |-> FMul(FMul(IF ~neutral_venue
                       THEN (IF is_home THEN FMul(team.avg_xg_for, HOME_ADVANTAGE)
                                        ELSE FDiv(team.avg_xg_for, HOME_ADVANTAGE))
                       ELSE team.avg_xg_for,
                       team.xg_efficiency),
                  IF ~neutral_venue
                  THEN (IF is_home THEN FDiv(opponent.defensive_efficiency, HOME_ADVANTAGE)
                                   ELSE FMul(opponent.defensive_efficiency, HOME_ADVANTAGE))
                  ELSE opponent.defensive_efficiency)]

\* the home side's defence left without its boost against the away attack
calculate_expected_goals_HomeDefenceUnboosted(team, opponent, is_home, neutral_venue) ==
    PyDiv(FMul(IF ~neutral_venue
               THEN (IF is_home THEN FMul(team.avg_xg_for, HOME_ADVANTAGE)
                                ELSE FDiv(team.avg_xg_for, HOME_ADVANTAGE))
               ELSE team.avg_xg_for,
               team.xg_efficiency),
          IF ~neutral_venue /\ is_home
          THEN FDiv(opponent.defensive_efficiency, HOME_ADVANTAGE)
          ELSE opponent.defensive_efficiency)

calculate_expected_goals(team, opponent, is_home, neutral_venue) ==
    LET base_xg ==
            IF ~neutral_venue
            THEN (IF is_home THEN FMul(team.avg_xg_for, HOME_ADVANTAGE)
                             ELSE FDiv(team.avg_xg_for, HOME_ADVANTAGE))
            ELSE team.avg_xg_for
        xg_with_efficiency == FMul(base_xg, team.xg_efficiency)
        opponent_defensive_factor ==
            IF ~neutral_venue
            THEN (IF is_home THEN FDiv(opponent.defensive_efficiency, HOME_ADVANTAGE)
                             ELSE FMul(opponent.defensive_efficiency, HOME_ADVANTAGE))
            ELSE opponent.defensive_efficiency
    IN  PyDiv(xg_with_efficiency, opponent_defensive_factor)

(***************************************************************************)
(* numpy.random.poisson(lam): ValueError for lam < 0 (-0.0 is not < 0),    *)
(* 0 for a zero mean, otherwise any count; the model draws up to MaxGoals. *)
(***************************************************************************)
(***************************************************************************)
(* MatchSimulator.run_simulations                                          *)
(***************************************************************************)
\* the results dictionary before the loop
InitialResults(home_team, away_team, num_simulations, neutral_venue) ==
    [home_team |-> get_display_name(home_team),
     away_team |-> get_display_name(away_team),
     venue_type |-> IF neutral_venue THEN "Neutral Venue" ELSE "Home/Away",
     num_simulations |-> num_simulations,
     home_wins |-> 0, away_wins |-> 0, draws |-> 0,
     home_goals |-> 0, away_goals |-> 0,
     score_counts |-> <<>>, home_goal_counts |-> <<>>, away_goal_counts |-> <<>>]

\* a draw left uncounted
UpdateCounters_DrawUncounted(results, match_result) ==
    IF match_result.result = "Home Win"
    THEN [results EXCEPT !.home_wins = @ + 1]
    ELSE IF match_result.result = "Away Win"
    THEN [results EXCEPT !.away_wins = @ + 1]
    ELSE results

\* win/draw/loss counters
UpdateCounters(results, match_result) ==
    IF match_result.result = "Home Win"
    THEN [results EXCEPT !.home_wins = @ + 1]
    ELSE IF match_result.result = "Away Win"
    THEN [results EXCEPT !.away_wins = @ + 1]
    ELSE [results EXCEPT !.draws = @ + 1]

\* goal sums
UpdateGoals(results, match_result) ==
    [results EXCEPT !.home_goals = @ + match_result.home_goals,
                    !.away_goals = @ + match_result.away_goals]

\* score distribution
UpdateScoreCounts(results, match_result) ==
    [results EXCEPT !.score_counts = DictInc(@, match_result.score_line)]

\* each side's goals counted in the other side's distribution
UpdateGoalCounts_SidesSwapped(results, match_result) ==
    [results EXCEPT !.home_goal_counts = DictInc(@, match_result.away_goals),
                    !.away_goal_counts = DictInc(@, match_result.home_goals)]

\* distribution of goals per side
UpdateGoalCounts(results, match_result) ==
    [results EXCEPT !.home_goal_counts = DictInc(@, match_result.home_goals),
                    !.away_goal_counts = DictInc(@, match_result.away_goals)]

\* the body of the loop after match.get_result()
RecordTrial(results, match_result) ==
    UpdateGoalCounts(
        UpdateScoreCounts(
            UpdateGoals(UpdateCounters(results, match_result), match_result),
            match_result),
        match_result)

\* an item placed before the earlier items of the same count
RECURSIVE InsertByCount_TiesReversed(_, _)
InsertByCount_TiesReversed(sorted, x) ==
    IF sorted = <<>> THEN <<x>>
    ELSE IF Head(sorted).count > x.count
         THEN <<Head(sorted)>> \o InsertByCount_TiesReversed(Tail(sorted), x)
         ELSE <<x>> \o sorted

\* sorted(items, key=count, reverse=True): descending and stable, so items of
\* equal count keep their order
RECURSIVE InsertByCount(_, _)
InsertByCount(sorted, x) ==
    IF sorted = <<>> THEN <<x>>
    ELSE IF Head(sorted).count >= x.count
         THEN <<Head(sorted)>> \o InsertByCount(Tail(sorted), x)
         ELSE <<x>> \o sorted

RECURSIVE SortedByCount(_)
SortedByCount(items) ==
    IF items = <<>> THEN <<>>
    ELSE InsertByCount(SortedByCount(SubSeq(items, 1, Len(items) - 1)), items[Len(items)])

TopScores == 10

\* the list cut to its first TopScores items before it is sorted
MostCommonScores_CutBeforeSort(score_counts, num_simulations) ==
    LET items == [j \in 1..Len(score_counts) |->
                    [score |-> score_counts[j][1],
                     count |-> score_counts[j][2],
                     prob  |-> FDiv(FromInt(score_counts[j][2]), FromInt(num_simulations))]]
    IN  SortedByCount(SubSeq(items, 1, IF Len(items) < TopScores THEN Len(items)
                                                                 ELSE TopScores))

MostCommonScores(score_counts, num_simulations) ==
    LET items == [j \in 1..Len(score_counts) |->
                    [score |-> score_counts[j][1],
                     count |-> score_counts[j][2],
                     prob  |-> FDiv(FromInt(score_counts[j][2]), FromInt(num_simulations))]]
        ranked == SortedByCount(items)
    IN  SubSeq(ranked, 1, IF Len(ranked) < TopScores THEN Len(ranked) ELSE TopScores)

\* the quotients taken by floor division
Summary_FloorDivision(results, num_simulations) ==
    [avg_home_goals |-> FromInt(results.home_goals \div num_simulations),
     avg_away_goals |-> FromInt(results.away_goals \div num_simulations),
     home_win_prob  |-> FromInt(results.home_wins \div num_simulations),
     away_win_prob  |-> FromInt(results.away_wins \div num_simulations),
     draw_prob      |-> FromInt(results.draws \div num_simulations),
     most_common_scores |-> MostCommonScores(results.score_counts, num_simulations)]

\* averages, probabilities and the ranked scorelines (num_simulations # 0)
Summary(results, num_simulations) ==
    [avg_home_goals |-> FDiv(FromInt(results.home_goals), FromInt(num_simulations)),
     avg_away_goals |-> FDiv(FromInt(results.away_goals), FromInt(num_simulations)),
     home_win_prob  |-> FDiv(FromInt(results.home_wins), FromInt(num_simulations)),
     away_win_prob  |-> FDiv(FromInt(results.away_wins), FromInt(num_simulations)),
     draw_prob      |-> FDiv(FromInt(results.draws), FromInt(num_simulations)),
     most_common_scores |-> MostCommonScores(results.score_counts, num_simulations)]

(***************************************************************************)
(* predict_score_probability.  scipy's poisson.pmf(k, mu) is nan for a     *)
(* mean below 0, 0.0 for k < 0 (outside the support; no error), 1.0 or 0.0 *)
(* for a mean of 0, and otherwise exp(k log mu - lgamma(k + 1) - mu).  The *)
(* last is computed here as (mu^k / k!) / e^mu in binary64, which agrees   *)
(* with scipy's value to a relative error near 1e-14, not to the last bit. *)
(***************************************************************************)
NaN == [nan |-> TRUE]

\* mu^k / k!
RECURSIVE PmfTerm(_, _)
PmfTerm(k, mu) ==
    IF k = 0 THEN FromInt(1)
    ELSE FDiv(FMul(PmfTerm(k - 1, mu), mu), FromInt(k))

PoissonPmf(k, mu) ==
    IF FLt(mu, Zero(0)) THEN NaN
    ELSE IF k < 0 THEN Zero(0)
    ELSE IF IsZero(mu) THEN (IF k = 0 THEN ONE ELSE Zero(0))
    ELSE FDiv(PmfTerm(k, mu), FExp(mu))

\* p * q on the values PoissonPmf returns
PmfProduct(p, q) ==
    IF p = NaN \/ q = NaN THEN NaN
    ELSE FMul(p, q)

\* the home side's probability taken at the away side's rate and conversely
predict_score_probability_RatesSwapped(home_team, away_team, home_goals, away_goals, neutral_venue) ==
    CHOOSE r \in {
        IF home_xg.err # "None" THEN [err |-> home_xg.err]
        ELSE IF away_xg.err # "None" THEN [err |-> away_xg.err]
        ELSE [err |-> "None",
              val |-> PmfProduct(PoissonPmf(home_goals, away_xg.val),
                                 PoissonPmf(away_goals, home_xg.val))]
        : home_xg \in {calculate_expected_goals(home_team, away_team, TRUE, neutral_venue)},
          away_xg \in {calculate_expected_goals(away_team, home_team, FALSE, neutral_venue)}}
        : TRUE

predict_score_probability(home_team, away_team, home_goals, away_goals, neutral_venue) ==
    CHOOSE r \in {
        IF home_xg.err # "None" THEN [err |-> home_xg.err]
        ELSE IF away_xg.err # "None" THEN [err |-> away_xg.err]
        ELSE [err |-> "None",
              val |-> PmfProduct(PoissonPmf(home_goals, home_xg.val),
                                 PoissonPmf(away_goals, away_xg.val))]
        : home_xg \in {calculate_expected_goals(home_team, away_team, TRUE, neutral_venue)},
          away_xg \in {calculate_expected_goals(away_team, home_team, FALSE, neutral_venue)}}
        : TRUE

(***************************************************************************)
(* State: the caller's two Team objects and venue flag, one MatchSimulator *)
(* with the run_simulations call in progress on it, and what the calls of  *)
(* the module's functions returned.                                        *)
(***************************************************************************)
VARIABLES
    home_team, away_team, neutral_venue,  \* the caller's arguments
    num_simulations,                      \* the trial count of the call
    pc,                                   \* "idle", "loop", "returned", "raised"
    trial,                                \* iterations of the loop completed
    match,                                \* the Match last simulated
    lambdas,                              \* the rates its simulate() computed
    results,                              \* the local results dictionary
    error,                                \* the exception the call raised
    returned,                             \* the value the call returned
    poisson_draws,                        \* np.random.poisson calls that returned
    last_simulation_results,              \* MatchSimulator.last_simulation_results
    xg,                                   \* calculate_expected_goals: call |-> outcome
    prediction,                           \* the predict_score_probability call made
    variant,                              \* a Team with one statistic changed, and its role
    xg_variant,                           \* calculate_expected_goals with it: is_home |-> outcome
    completed,                            \* a simulate() call on the caller's Match has completed
    observed,                             \* the last get_result / get_score_string call on it
    held,                                 \* the result of an earlier call, as its caller holds it
    teams, teams_df                       \* the caller's TeamManager: teams, teams_df

caller == <<home_team, away_team, neutral_venue, teams, teams_df>>

simulation == <<num_simulations, pc, trial, results, returned, last_simulation_results>>

comparison == <<variant, xg_variant>>

lifecycle == <<completed, observed>>

vars == <<caller, simulation, match, lambdas, error, poisson_draws, xg, prediction,
          comparison, lifecycle, held>>

MaxTrials == 2

TrialCounts == (0 - 1)..MaxTrials

TeamA == Team("Team A", "2024-2025", 180, 100, 100)
TeamB == Team("Team B", "2021-2022", 180, 100, 100)
TeamC == Team("Team C", "2023-2024", 235, 110, 95)
NoAttack == Team("No Attack", "2020-2021", 0, 100, 100)
ZeroDefence == Team("Zero Defence", "2020-2021", 180, 100, 0)
NegDefence == Team("Negative Defence", "2020-2021", 180, 100, 0 - 50)
NegDefenceNoAttack == Team("Negative Defence No Attack", "2020-2021", 0, 100, 0 - 50)
TeamD == Team("Team D", "2022-2023", 137, 93, 107)
TeamE == Team("Team E", "2019-2020", 92, 108, 133)

ValidSimTeams == {TeamA, TeamC, NoAttack}
SimTeams == ValidSimTeams \cup {ZeroDefence, NegDefence, NegDefenceNoAttack}
Teams == {TeamA, TeamB, TeamC, TeamD, TeamE, NoAttack, ZeroDefence, NegDefence}

\* the calls of calculate_expected_goals a caller makes for one fixture:
\* <<TRUE, h>> is (home_team, away_team, is_home = h), <<FALSE, h>> is
\* (away_team, home_team, is_home = h)
Calls == BOOLEAN \X BOOLEAN

CallTeam(c) == IF c[1] THEN home_team ELSE away_team
CallOpponent(c) == IF c[1] THEN away_team ELSE home_team

\* MatchSimulator.__init__ and TeamManager.__init__, and the caller holding
\* its arguments
Idle ==
    /\ neutral_venue \in BOOLEAN
    /\ num_simulations = 0
    /\ pc = "idle"
    /\ trial = 0
    /\ match = None
    /\ lambdas = None
    /\ results = None
    /\ error = "None"
    /\ returned = None
    /\ poisson_draws = 0
    /\ last_simulation_results = None
    /\ xg = [c \in Calls |-> None]
    /\ prediction = None
    /\ variant = None
    /\ xg_variant = [is_home \in BOOLEAN |-> None]
    /\ completed = FALSE
    /\ observed = None
    /\ held = None
    /\ teams = <<>>
    /\ teams_df = None

Init ==
    /\ home_team \in SimTeams
    /\ away_team \in SimTeams
    /\ Idle

\* the dict of an earlier call taken again for the results of the next call
NewDictIsShared_Reused == TRUE

\* The dict that `results = {...}` binds is a new object: it is not the
\* object an earlier call returned.
NewDictIsShared == FALSE

\* the earlier result h after the running call has written r to its results:
\* the same value unless the two are one object
Through(h, r) == IF h # None /\ h.aliased THEN [h EXCEPT !.value = r] ELSE h

\* run_simulations is called: the results dictionary is built
RunSimulationsCall ==
    /\ pc = "idle"
    /\ \E n \in TrialCounts :
          /\ num_simulations' = n
          /\ results' = InitialResults(home_team, away_team, n, neutral_venue)
    /\ pc' = "loop"
    /\ trial' = 0
    /\ UNCHANGED <<caller, match, lambdas, error, returned, poisson_draws,
                   last_simulation_results, xg, prediction, comparison, lifecycle, held>>

\* one iteration of the loop: Match(...), simulate(), get_result() and the
\* updates; an exception of simulate() ends the call
Trial ==
    /\ pc = "loop"
    /\ trial < num_simulations
    /\ \E m \in {Match(home_team, away_team, neutral_venue)} :
       \E eg \in {ExpectedGoals(m)} :
       \E o \in simulate(m, eg) :
          /\ match' = o.match
          /\ lambdas' = o.lambdas
          /\ poisson_draws' = poisson_draws + o.draws
          /\ \E r \in {IF o.err # "None" THEN [err |-> o.err] ELSE get_result(o.match)} :
                IF r.err # "None"
                THEN /\ error' = r.err
                     /\ pc' = "raised"
                     /\ UNCHANGED <<trial, results>>
                ELSE /\ results' = RecordTrial(results, r.val)
                     /\ trial' = trial + 1
                     /\ UNCHANGED <<pc, error>>
    /\ held' = Through(held, results')
    /\ UNCHANGED <<caller, num_simulations, returned, last_simulation_results,
                   xg, prediction, comparison, lifecycle>>

\* the dict saved as the last result before the averages are computed
Finish_SavesBeforeAverages ==
    /\ pc = "loop"
    /\ trial >= num_simulations
    /\ \/ /\ num_simulations = 0
          /\ error' = "ZeroDivisionError"
          /\ pc' = "raised"
          /\ last_simulation_results' = results
          /\ UNCHANGED <<results, returned>>
       \/ /\ num_simulations # 0
          /\ results' = results @@ Summary(results, num_simulations)
          /\ last_simulation_results' = results'
          /\ returned' = results'
          /\ pc' = "returned"
          /\ UNCHANGED error
    /\ held' = Through(held, results')
    /\ UNCHANGED <<caller, num_simulations, trial, match, lambdas, poisson_draws,
                   xg, prediction, comparison, lifecycle>>

\* after the loop: averages and probabilities, the ranked scorelines, the
\* result saved and returned; the first division raises for a count of 0
Finish ==
    /\ pc = "loop"
    /\ trial >= num_simulations
    /\ \/ /\ num_simulations = 0
          /\ error' = "ZeroDivisionError"
          /\ pc' = "raised"
          /\ UNCHANGED <<results, returned, last_simulation_results>>
       \/ /\ num_simulations # 0
          /\ results' = results @@ Summary(results, num_simulations)
          /\ last_simulation_results' = results'
          /\ returned' = results'
          /\ pc' = "returned"
          /\ UNCHANGED error
    /\ held' = Through(held, results')
    /\ UNCHANGED <<caller, num_simulations, trial, match, lambdas, poisson_draws,
                   xg, prediction, comparison, lifecycle>>

Next == RunSimulationsCall \/ Trial \/ Finish

Spec == Init /\ [][Next]_vars

(***************************************************************************)
(* The expected-goals computations on one fixture: a caller holding two    *)
(* teams and a venue flag calls calculate_expected_goals, and              *)
(* MatchSimulator.simulate_match, which simulates a Match of them.         *)
(***************************************************************************)
InitXG ==
    /\ home_team \in Teams
    /\ away_team \in Teams
    /\ Idle

\* calculate_expected_goals(team, opponent, is_home, neutral_venue); a call
\* repeated with the same arguments returns the same value
CalculateFor(c) ==
    /\ xg[c] = None
    /\ xg' = [xg EXCEPT ![c] = calculate_expected_goals(
                                   CallTeam(c), CallOpponent(c), c[2], neutral_venue)]
    /\ UNCHANGED <<caller, simulation, match, lambdas, error, poisson_draws, prediction,
                   comparison, lifecycle, held>>

CalculateExpectedGoals == \E c \in Calls : CalculateFor(c)

\* MatchSimulator.simulate_match: a Match is built and simulated
SimulateMatchCall ==
    /\ \E m \in {Match(home_team, away_team, neutral_venue)} :
       \E eg \in {ExpectedGoals(m)} :
       \E o \in simulate(m, eg) :
          /\ match' = o.match
          /\ lambdas' = o.lambdas
          /\ poisson_draws' = poisson_draws + o.draws
          /\ error' = IF o.err # "None" THEN o.err ELSE get_result(o.match).err
    /\ UNCHANGED <<caller, simulation, xg, prediction, comparison, lifecycle, held>>

\* the first simulate_match of a caller
SimulateMatch == match = None /\ SimulateMatchCall

NextXG == CalculateExpectedGoals \/ SimulateMatch

SpecXG == InitXG /\ [][NextXG]_vars

(***************************************************************************)
(* predict_score_probability called for a scoreline.                       *)
(***************************************************************************)
GoalQueries == (0 - 1)..(MaxGoals + 1)

PredictScoreProbability ==
    /\ prediction = None
    /\ \E home_goals \in GoalQueries, away_goals \in GoalQueries :
          prediction' =
              [home_goals |-> home_goals, away_goals |-> away_goals,
               ret |-> predict_score_probability(home_team, away_team,
                                                 home_goals, away_goals, neutral_venue)]
    /\ UNCHANGED <<caller, simulation, match, lambdas, error, poisson_draws, xg,
                   comparison, lifecycle, held>>

NextPredict == PredictScoreProbability

PredictHomeTeams == {TeamA, NoAttack, NegDefence}
PredictAwayTeams == {TeamB, NoAttack, NegDefence}

InitPredict ==
    /\ home_team \in PredictHomeTeams
    /\ away_team \in PredictAwayTeams
    /\ Idle

SpecPredict == InitPredict /\ [][NextPredict]_vars

(***************************************************************************)
(* Properties of run_simulations (Spec)                                    *)
(***************************************************************************)
ValidAttack(t) == ~FLt(t.avg_xg_for, Zero(0)) /\ FLt(Zero(0), t.xg_efficiency)

GoodDefence(t) == FLt(Zero(0), t.defensive_efficiency)

\* C1: after the k-th iteration of the loop home_wins + away_wins + draws is
\* k, and a result returned for a trial count N >= 1 has the three sum to N
C1_OutcomeCountersSumToTrials ==
    /\ pc = "loop" => results.home_wins + results.away_wins + results.draws = trial
    /\ (pc = "returned" /\ num_simulations >= 1) =>
            returned.home_wins + returned.away_wins + returned.draws = num_simulations

C1_Witness ==
    /\ pc = "returned"
    /\ num_simulations = MaxTrials
    /\ returned.home_wins >= 1
    /\ returned.draws >= 1

\* C2: in a result returned for a trial count N >= 1 the values of
\* score_counts, of home_goal_counts and of away_goal_counts each sum to N
C2_DistributionsSumToTrials ==
    (pc = "returned" /\ num_simulations >= 1) =>
        /\ SumValues(returned.score_counts) = num_simulations
        /\ SumValues(returned.home_goal_counts) = num_simulations
        /\ SumValues(returned.away_goal_counts) = num_simulations

C2_Witness ==
    /\ pc = "returned"
    /\ num_simulations = MaxTrials
    /\ \E j \in 1..Len(returned.score_counts) : returned.score_counts[j][2] >= 2

\* C3: a trial count below 1 is rejected before the loop: such a call never
\* returns a result (the code returns one for a negative count)
C3_CountBelowOneNeverReturns ==
    (pc # "idle" /\ num_simulations < 1) => pc # "returned"

\* C4: with a defensive_efficiency <= 0 on either side the call fails before
\* any Poisson draw and any counter update and returns no result (the code
\* draws the home goals first, and returns a result when the rate is -0.0)
C4_BadDefenceFailsBeforeAnyDraw ==
    (pc # "idle" /\ num_simulations >= 1
     /\ (~GoodDefence(home_team) \/ ~GoodDefence(away_team))) =>
        /\ poisson_draws = 0
        /\ pc # "returned"
        /\ results.home_wins + results.away_wins + results.draws = 0

(***************************************************************************)
(* Properties of calculate_expected_goals and Match.simulate (SpecXG)      *)
(***************************************************************************)
Returned(c) == xg[c] # None /\ xg[c].err = "None"

\* C5: calculate_expected_goals raises whenever the opponent's
\* defensive_efficiency is <= 0, so a value returned for a valid attack is
\* never negative (the code returns a negative rate for a negative defence)
C5_BadDefenceRaises ==
    \A c \in Calls :
        xg[c] # None =>
            /\ ~GoodDefence(CallOpponent(c)) => xg[c].err # "None"
            /\ (xg[c].err = "None" /\ ValidAttack(CallTeam(c))) =>
                    ~FLt(xg[c].val, Zero(0))

\* the 2.592, 1.25 and 1.8 of the scenario of teams A and B
HomeXgAB == Dec(2592, 1000)
AwayXgAB == Dec(125, 100)
NeutralXgAB == Dec(18, 10)

ScenarioAB(c) == CallTeam(c) \in {TeamA, TeamB} /\ CallOpponent(c) \in {TeamA, TeamB}

\* C7: at a non-neutral venue the value returned is
\* (avg_xg_for * 1.2 * xg_efficiency) / (defensive_efficiency / 1.2) for the
\* home side and ((avg_xg_for / 1.2) * xg_efficiency) /
\* (defensive_efficiency * 1.2) for the away side: 2.592 and 1.25 for teams
\* A and B
C7_NonNeutralFormula ==
    ~neutral_venue =>
        \A c \in Calls :
            Returned(c) =>
                \E t \in {CallTeam(c)}, o \in {CallOpponent(c)} :
                    /\ c[2] =>
                         xg[c].val =
                            FDiv(FMul(FMul(t.avg_xg_for, HOME_ADVANTAGE), t.xg_efficiency),
                                 FDiv(o.defensive_efficiency, HOME_ADVANTAGE))
                    /\ ~c[2] =>
                         xg[c].val =
                            FDiv(FMul(FDiv(t.avg_xg_for, HOME_ADVANTAGE), t.xg_efficiency),
                                 FMul(o.defensive_efficiency, HOME_ADVANTAGE))
                    /\ ScenarioAB(c) => xg[c].val = IF c[2] THEN HomeXgAB ELSE AwayXgAB

C7_Witness ==
    /\ ~neutral_venue
    /\ home_team = TeamA
    /\ away_team = TeamB
    /\ Returned(<<TRUE, TRUE>>)
    /\ Returned(<<FALSE, FALSE>>)
    /\ xg[<<TRUE, TRUE>>].val = HomeXgAB
    /\ xg[<<FALSE, FALSE>>].val = AwayXgAB

\* C8: at a neutral venue the value returned is avg_xg_for * xg_efficiency /
\* defensive_efficiency whatever is_home is, so the home and the away call
\* for the same team and opponent return the same value: 1.8 for teams A and B
C8_NeutralFormula ==
    neutral_venue =>
        \A c \in Calls :
            Returned(c) =>
                /\ xg[c].val =
                      FDiv(FMul(CallTeam(c).avg_xg_for, CallTeam(c).xg_efficiency),
                           CallOpponent(c).defensive_efficiency)
                /\ xg[<<c[1], ~c[2]>>] # None => xg[<<c[1], ~c[2]>>] = xg[c]
                /\ ScenarioAB(c) => xg[c].val = NeutralXgAB

C8_Witness ==
    /\ neutral_venue
    /\ home_team = TeamA
    /\ away_team = TeamB
    /\ Returned(<<TRUE, TRUE>>)
    /\ Returned(<<TRUE, FALSE>>)
    /\ xg[<<TRUE, TRUE>>].val = NeutralXgAB

\* C9 as stated: at a non-neutral venue, for a valid attack (avg_xg_for >= 0,
\* xg_efficiency > 0) and an opponent's defensive_efficiency > 0, the value
\* for is_home = TRUE strictly exceeds the value for is_home = FALSE
C9_HomeExceedsAway_AsStated ==
    ~neutral_venue =>
        \A side \in BOOLEAN :
            (/\ Returned(<<side, TRUE>>)
             /\ Returned(<<side, FALSE>>)
             /\ ValidAttack(CallTeam(<<side, TRUE>>))
             /\ GoodDefence(CallOpponent(<<side, TRUE>>))) =>
                FLt(xg[<<side, FALSE>>].val, xg[<<side, TRUE>>].val)

\* C9 amended: the same for avg_xg_for > 0 (for avg_xg_for = 0 both values
\* are 0)
C9_HomeExceedsAway ==
    ~neutral_venue =>
        \A side \in BOOLEAN :
            (/\ Returned(<<side, TRUE>>)
             /\ Returned(<<side, FALSE>>)
             /\ FLt(Zero(0), CallTeam(<<side, TRUE>>).avg_xg_for)
             /\ FLt(Zero(0), CallTeam(<<side, TRUE>>).xg_efficiency)
             /\ GoodDefence(CallOpponent(<<side, TRUE>>))) =>
                FLt(xg[<<side, FALSE>>].val, xg[<<side, TRUE>>].val)

C9_Witness ==
    /\ ~neutral_venue
    /\ home_team = TeamD
    /\ away_team = TeamC
    /\ Returned(<<TRUE, TRUE>>)
    /\ Returned(<<TRUE, FALSE>>)
    /\ FLt(xg[<<TRUE, FALSE>>].val, xg[<<TRUE, TRUE>>].val)

\* C10: the rates Match.simulate computes for (home_team, away_team,
\* neutral_venue) are the very floats calculate_expected_goals returns for
\* (home_team, away_team, is_home = TRUE) and (away_team, home_team,
\* is_home = FALSE) under the same venue flag
C10_SimulateAgreesWithFunction ==
    (lambdas # None /\ lambdas.err = "None") =>
        /\ xg[<<TRUE, TRUE>>] # None =>
              (Returned(<<TRUE, TRUE>>) /\ xg[<<TRUE, TRUE>>].val = lambdas.home)
        /\ xg[<<FALSE, FALSE>>] # None =>
              (Returned(<<FALSE, FALSE>>) /\ xg[<<FALSE, FALSE>>].val = lambdas.away)

C10_Witness ==
    /\ ~neutral_venue
    /\ home_team = TeamC
    /\ away_team = TeamD
    /\ lambdas # None
    /\ lambdas.err = "None"
    /\ Returned(<<TRUE, TRUE>>)
    /\ Returned(<<FALSE, FALSE>>)
    /\ xg[<<TRUE, TRUE>>].val = lambdas.home
    /\ xg[<<FALSE, FALSE>>].val = lambdas.away

(***************************************************************************)
(* Properties of predict_score_probability (SpecPredict)                   *)
(***************************************************************************)
\* C6: a call with a negative home_goals or away_goals raises: it never
\* returns a probability (the code returns 0.0, or nan)
C6_NegativeGoalsRaise ==
    (prediction # None /\ (prediction.home_goals < 0 \/ prediction.away_goals < 0)) =>
        prediction.ret.err # "None"

(***************************************************************************)
(* calculate_expected_goals on a fixture and on the same fixture with one  *)
(* statistic of the team, or of the opponent, changed: the caller builds a *)
(* second Team and makes the same calls with it in the place of the first. *)
(***************************************************************************)
AttackGrid ==
    {Team("Attack", "2024-2025", avg, eff, 100) : avg \in {0, 137, 180}, eff \in {93, 110}}

DefenceGrid ==
    {Team("Defence", "2024-2025", 180, 100, def) : def \in {64, 95, 133}}

Variants ==
    {[role |-> "team", team |-> t] : t \in AttackGrid}
        \cup {[role |-> "opponent", team |-> t] : t \in DefenceGrid}

VariantTeam == IF variant.role = "team" THEN variant.team ELSE home_team
VariantOpponent == IF variant.role = "opponent" THEN variant.team ELSE away_team

InitMono ==
    /\ home_team \in AttackGrid
    /\ away_team \in DefenceGrid
    /\ Idle

\* Team.__init__ of the second Team
MakeVariant ==
    /\ variant = None
    /\ variant' \in Variants
    /\ UNCHANGED <<caller, simulation, match, lambdas, error, poisson_draws, xg, prediction,
                   xg_variant, lifecycle, held>>

\* calculate_expected_goals(home_team, away_team, is_home, neutral_venue)
CalculateBase == \E is_home \in BOOLEAN : CalculateFor(<<TRUE, is_home>>)

\* the same call with the second Team as the team or as the opponent
CalculateVariant ==
    /\ variant # None
    /\ \E is_home \in BOOLEAN :
          /\ xg_variant[is_home] = None
          /\ xg_variant' = [xg_variant EXCEPT ![is_home] = calculate_expected_goals(
                                VariantTeam, VariantOpponent, is_home, neutral_venue)]
    /\ UNCHANGED <<caller, simulation, match, lambdas, error, poisson_draws, xg, prediction,
                   variant, lifecycle, held>>

NextMono == MakeVariant \/ CalculateBase \/ CalculateVariant

SpecMono == InitMono /\ [][NextMono]_vars

Statistics == {"avg_xg_for", "xg_efficiency", "defensive_efficiency"}

\* the second Team is the Team t with the statistic f raised and the other
\* statistics the same
RaisesOnly(role, t, f) ==
    /\ variant # None
    /\ variant.role = role
    /\ FLt(t[f], variant.team[f])
    /\ \A g \in Statistics \ {f} : variant.team[g] = t[g]

BothReturned(is_home) ==
    /\ Returned(<<TRUE, is_home>>)
    /\ xg_variant[is_home] # None
    /\ xg_variant[is_home].err = "None"

\* C11 as stated: raising avg_xg_for or xg_efficiency of the team raises the
\* value calculate_expected_goals returns, for either is_home and venue
C11_RaisingAttackRaisesXg_AsStated ==
    \A is_home \in BOOLEAN :
        (BothReturned(is_home)
            /\ (RaisesOnly("team", home_team, "avg_xg_for")
                    \/ RaisesOnly("team", home_team, "xg_efficiency")))
        => FLt(xg[<<TRUE, is_home>>].val, xg_variant[is_home].val)

\* C11: raising avg_xg_for of the team raises the value
\* calculate_expected_goals returns; raising xg_efficiency never lowers it,
\* and raises it when avg_xg_for is above 0 (with avg_xg_for = 0 the value is
\* 0 for every efficiency); for either is_home and venue
C11_RaisingAttackRaisesXg ==
    \A is_home \in BOOLEAN :
        BothReturned(is_home) =>
            /\ RaisesOnly("team", home_team, "avg_xg_for")
                    => FLt(xg[<<TRUE, is_home>>].val, xg_variant[is_home].val)
            /\ RaisesOnly("team", home_team, "xg_efficiency")
                    => /\ ~FLt(xg_variant[is_home].val, xg[<<TRUE, is_home>>].val)
                       /\ FLt(Zero(0), home_team.avg_xg_for)
                            => FLt(xg[<<TRUE, is_home>>].val, xg_variant[is_home].val)

C11_Witness ==
    /\ RaisesOnly("team", home_team, "xg_efficiency")
    /\ FLt(Zero(0), home_team.avg_xg_for)
    /\ ~neutral_venue
    /\ BothReturned(TRUE)
    /\ BothReturned(FALSE)

\* C12: raising defensive_efficiency of the opponent (above 0) never raises
\* the value calculate_expected_goals returns, and lowers it when the team's
\* avg_xg_for is above 0; for either is_home and venue
C12_RaisingDefenceLowersXg ==
    \A is_home \in BOOLEAN :
        (BothReturned(is_home)
            /\ GoodDefence(away_team)
            /\ RaisesOnly("opponent", away_team, "defensive_efficiency"))
        => /\ ~FLt(xg[<<TRUE, is_home>>].val, xg_variant[is_home].val)
           /\ FLt(Zero(0), home_team.avg_xg_for)
                => FLt(xg_variant[is_home].val, xg[<<TRUE, is_home>>].val)

C12_Witness ==
    /\ RaisesOnly("opponent", away_team, "defensive_efficiency")
    /\ GoodDefence(away_team)
    /\ FLt(Zero(0), home_team.avg_xg_for)
    /\ neutral_venue
    /\ BothReturned(TRUE)
    /\ BothReturned(FALSE)

(***************************************************************************)
(* Further properties of run_simulations (Spec)                            *)
(***************************************************************************)
\* C13: the Poisson means of the first trial of a run_simulations call are
\* the pair calculate_expected_goals returns for the call's teams and venue
\* (home side with is_home, away side without), and no later trial of the
\* call has other means
C13_TrialRatesAreTheAdjusterPair ==
    [][(pc = "loop" /\ lambdas' # lambdas) =>
          /\ lambdas = None
          /\ lambdas'.err = "None" =>
                \E home_xg \in {calculate_expected_goals(home_team, away_team, TRUE,
                                                         neutral_venue)} :
                \E away_xg \in {calculate_expected_goals(away_team, home_team, FALSE,
                                                         neutral_venue)} :
                    /\ home_xg.err = "None"
                    /\ away_xg.err = "None"
                    /\ lambdas'.home = home_xg.val
                    /\ lambdas'.away = away_xg.val]_vars

C13_Witness ==
    /\ pc = "loop"
    /\ trial = MaxTrials
    /\ trial > 1
    /\ lambdas.err = "None"
    /\ ~neutral_venue
    /\ home_team = TeamC
    /\ away_team = TeamA

(***************************************************************************)
(* The end of run_simulations on the results of a finished loop.  The loop *)
(* of a call on Team A against Team C has recorded its trials: the first   *)
(* n <= MaxScorelines scorelines once each, in order, then one of them and *)
(* the last of them up to MaxRepeats times more.  Finish is the rest of    *)
(* the call.                                                               *)
(***************************************************************************)
MaxScorelines == 11
MaxRepeats == 2

\* the j-th scoreline, as <<home goals, away goals>>
GoalsOf(j) == <<(j - 1) \div 4, (j - 1) % 4>>

TrialGoals(n, p, e1, e2) ==
    [j \in 1..n |-> GoalsOf(j)] \o [j \in 1..e1 |-> GoalsOf(p)] \o [j \in 1..e2 |-> GoalsOf(n)]

RankTrials ==
    UNION {{TrialGoals(n, p, e1, e2) : p \in 1..n, e1 \in 0..MaxRepeats, e2 \in 0..MaxRepeats}
           : n \in 0..MaxScorelines} \cup {<<>>}

RankMatch == Match(TeamA, TeamC, FALSE)
RankLambdas == ExpectedGoals(RankMatch)

PlayedMatch(goals) ==
    [RankMatch EXCEPT !.home_goals = goals[1], !.away_goals = goals[2], !.played = TRUE]

\* the results dictionary after the loop has recorded the trials
RECURSIVE ResultsAfter(_, _)
ResultsAfter(trials, k) ==
    IF k = 0
    THEN InitialResults(TeamA, TeamC, Len(trials), FALSE)
    ELSE RecordTrial(ResultsAfter(trials, k - 1), get_result(PlayedMatch(trials[k])).val)

InitRank ==
    /\ home_team = TeamA
    /\ away_team = TeamC
    /\ neutral_venue = FALSE
    /\ \E trials \in RankTrials :
          /\ num_simulations = Len(trials)
          /\ trial = Len(trials)
          /\ results = ResultsAfter(trials, Len(trials))
          /\ match = IF trials = <<>> THEN None ELSE PlayedMatch(trials[Len(trials)])
          /\ lambdas = IF trials = <<>> THEN None ELSE RankLambdas
          /\ poisson_draws = 2 * Len(trials)
    /\ pc = "loop"
    /\ error = "None"
    /\ returned = None
    /\ last_simulation_results = None
    /\ xg = [c \in Calls |-> None]
    /\ prediction = None
    /\ variant = None
    /\ xg_variant = [is_home \in BOOLEAN |-> None]
    /\ completed = FALSE
    /\ observed = None
    /\ held = None
    /\ teams = <<>>
    /\ teams_df = None

NextRank == Finish

SpecRank == InitRank /\ [][NextRank]_vars

\* C14: most_common_scores is in descending order of count, and entries of
\* equal count are in the order their scorelines were first recorded
C14_RankedByCountThenFirstSeen ==
    pc = "returned" =>
        \A i \in 1..Len(returned.most_common_scores) :
        \A j \in 1..Len(returned.most_common_scores) :
            i < j =>
                /\ returned.most_common_scores[i].count >= returned.most_common_scores[j].count
                /\ returned.most_common_scores[i].count = returned.most_common_scores[j].count
                     => DictIndex(returned.score_counts, returned.most_common_scores[i].score)
                          < DictIndex(returned.score_counts, returned.most_common_scores[j].score)

C14_Witness ==
    /\ pc = "returned"
    /\ Len(returned.most_common_scores) = TopScores
    /\ returned.most_common_scores[1].count > returned.most_common_scores[2].count
    /\ returned.most_common_scores[2].count > returned.most_common_scores[3].count
    /\ returned.most_common_scores[3].count = returned.most_common_scores[4].count
    /\ DictIndex(returned.score_counts, returned.most_common_scores[1].score)
            > DictIndex(returned.score_counts, returned.most_common_scores[2].score)

\* C15: most_common_scores holds the TopScores highest-ranked scorelines of
\* score_counts (all of them when there are fewer): no scoreline left out has
\* a higher count than one kept, each entry's count is the scoreline's count
\* in score_counts and its prob is count / num_simulations
C15_TopScoresRetained ==
    pc = "returned" =>
        /\ Len(returned.most_common_scores) =
                (IF Len(returned.score_counts) < TopScores THEN Len(returned.score_counts)
                                                           ELSE TopScores)
        /\ \A i \in 1..Len(returned.most_common_scores) :
              \E e \in {returned.most_common_scores[i]} :
                /\ DictGet(returned.score_counts, e.score, 0) = e.count
                /\ e.prob = FDiv(FromInt(e.count), FromInt(num_simulations))
                /\ \A j \in 1..Len(returned.most_common_scores) :
                        j # i => returned.most_common_scores[j].score # e.score
                /\ \A j \in 1..Len(returned.score_counts) :
                        returned.score_counts[j][2] > e.count
                            => \E k \in 1..Len(returned.most_common_scores) :
                                  returned.most_common_scores[k].score
                                      = returned.score_counts[j][1]

C15_Witness ==
    /\ pc = "returned"
    /\ Len(returned.score_counts) > TopScores
    /\ DictIndex(returned.score_counts, returned.most_common_scores[1].score)
            = Len(returned.score_counts)
    /\ returned.most_common_scores[1].count > returned.most_common_scores[TopScores].count

\* C16: the match of every trial is classified as exactly one of Home Win
\* (home_goals > away_goals), Away Win (away_goals > home_goals) and Draw
\* (equal), and the trial adds 1 to the counter of that class and nothing to
\* the other two; the counters start at 0
C16_OneCounterPerTrial ==
    [][/\ (pc = "idle" /\ pc' = "loop") =>
            (results'.home_wins = 0 /\ results'.away_wins = 0 /\ results'.draws = 0)
       /\ (pc = "loop" /\ trial' = trial + 1) =>
            \E h \in {match'.home_goals}, a \in {match'.away_goals},
               r \in {get_result(match').val.result} :
                /\ r \in {"Home Win", "Away Win", "Draw"}
                /\ (r = "Home Win") <=> (h > a)
                /\ (r = "Away Win") <=> (a > h)
                /\ (r = "Draw") <=> (h = a)
                /\ results'.home_wins = results.home_wins + (IF h > a THEN 1 ELSE 0)
                /\ results'.away_wins = results.away_wins + (IF a > h THEN 1 ELSE 0)
                /\ results'.draws = results.draws + (IF h = a THEN 1 ELSE 0)]_vars

C16_Witness ==
    /\ pc = "returned"
    /\ returned.home_wins = 1
    /\ returned.away_wins = 1
    /\ returned.draws = 0

(***************************************************************************)
(* One Match object held by the caller: built from the caller's teams and  *)
(* venue flag, then set_neutral_venue, simulate, get_result and            *)
(* get_score_string called on it in any order.                             *)
(***************************************************************************)
MaxSimulateCalls == 2

MatchTeams == {TeamA, NoAttack, ZeroDefence, NegDefence}

InitMatch ==
    /\ home_team \in MatchTeams
    /\ away_team \in MatchTeams
    /\ Idle

\* Match(home_team, away_team, neutral_venue)
NewMatch ==
    /\ match = None
    /\ match' = Match(home_team, away_team, neutral_venue)
    /\ UNCHANGED <<caller, simulation, lambdas, error, poisson_draws, xg, prediction,
                   comparison, lifecycle, held>>

\* match.set_neutral_venue(is_neutral)
SetNeutralVenue ==
    /\ match # None
    /\ \E is_neutral \in BOOLEAN : match' = set_neutral_venue(match, is_neutral)
    /\ error' = "None"
    /\ UNCHANGED <<caller, simulation, lambdas, poisson_draws, xg, prediction,
                   comparison, lifecycle, held>>

\* match.simulate()
MatchSimulate ==
    /\ match # None
    /\ poisson_draws < 2 * MaxSimulateCalls
    /\ \E eg \in {ExpectedGoals(match)} :
       \E o \in simulate(match, eg) :
          /\ match' = o.match
          /\ lambdas' = o.lambdas
          /\ poisson_draws' = poisson_draws + o.draws
          /\ error' = o.err
          /\ completed' = (completed \/ o.err = "None")
    /\ UNCHANGED <<caller, simulation, xg, prediction, comparison, observed, held>>

\* match.get_result()
GetResult ==
    /\ match # None
    /\ \E r \in {get_result(match)} :
          /\ observed' = [call |-> "get_result", ret |-> r]
          /\ error' = r.err
    /\ UNCHANGED <<caller, simulation, match, lambdas, poisson_draws, xg, prediction,
                   comparison, completed, held>>

\* match.get_score_string()
GetScoreString ==
    /\ match # None
    /\ observed' = [call |-> "get_score_string", text |-> get_score_string(match)]
    /\ error' = "None"
    /\ UNCHANGED <<caller, simulation, match, lambdas, poisson_draws, xg, prediction,
                   comparison, completed, held>>

NextMatch == NewMatch \/ SetNeutralVenue \/ MatchSimulate \/ GetResult \/ GetScoreString

SpecMatch == InitMatch /\ [][NextMatch]_vars

\* C20: get_result raises ValueError when no simulate() call has completed
\* on the Match and returns a result dictionary when one has; and
\* get_score_string returns 'Match not played yet' in exactly the states
\* where get_result raises
C20_ResultOnlyAfterSimulate ==
    [][(observed' # observed) =>
          /\ observed'.call = "get_result" =>
                /\ ~completed => observed'.ret.err = "ValueError"
                /\ completed =>
                      /\ observed'.ret.err = "None"
                      /\ observed'.ret.val.home_goals = match.home_goals
                      /\ observed'.ret.val.away_goals = match.away_goals
          /\ observed'.call = "get_score_string" =>
                ((observed'.text = NotPlayedYet) <=> (get_result(match).err # "None"))]_vars

C20_Witness ==
    /\ observed # None
    /\ observed.call = "get_result"
    /\ observed.ret.err = "None"
    /\ completed
    /\ observed.ret.val.home_goals = 0
    /\ observed.ret.val.away_goals = 0
    /\ match.neutral_venue # neutral_venue

(***************************************************************************)
(* Further properties of predict_score_probability (SpecPredict)           *)
(***************************************************************************)
\* lo <= x <= hi
Within(x, lo, hi) == x # NaN /\ ~FLt(x, lo) /\ ~FLt(hi, x)

\* the value returned is the product of the two Poisson probabilities at the
\* rates calculate_expected_goals returns for the home side (is_home) and
\* the away side (not is_home) under the call's venue flag
ProductOfPmfs ==
    (prediction # None /\ prediction.ret.err = "None") =>
        \E home_xg \in {calculate_expected_goals(home_team, away_team, TRUE, neutral_venue)} :
        \E away_xg \in {calculate_expected_goals(away_team, home_team, FALSE, neutral_venue)} :
            /\ home_xg.err = "None"
            /\ away_xg.err = "None"
            /\ prediction.ret.val = PmfProduct(PoissonPmf(prediction.home_goals, home_xg.val),
                                               PoissonPmf(prediction.away_goals, away_xg.val))

\* predict_score_probability(Team A, Team B, 2, 1, neutral_venue = True) has
\* returned
ScenarioTwoOne ==
    /\ prediction # None
    /\ home_team = TeamA
    /\ away_team = TeamB
    /\ neutral_venue
    /\ prediction.home_goals = 2
    /\ prediction.away_goals = 1
    /\ prediction.ret.err = "None"

\* C19 as stated: the value is the product of the two Poisson probabilities at
\* the Adjuster's rates, and for Team A against Team B at a neutral venue
\* and the score 2-1 it is 0.0803 within 1e-4
C19_ProductOfPmfs_AsStated ==
    /\ ProductOfPmfs
    /\ ScenarioTwoOne => Within(prediction.ret.val, Dec(802, 10000), Dec(804, 10000))

\* C19: the value is the product of the two Poisson probabilities at the
\* Adjuster's rates, and for Team A against Team B at a neutral venue and
\* the score 2-1 it is 0.0797 within 1e-4 (0.26778 * 0.29754 = 0.079676)
C19_ProductOfPmfs ==
    /\ ProductOfPmfs
    /\ ScenarioTwoOne => Within(prediction.ret.val, Dec(796, 10000), Dec(798, 10000))

C19_Witness ==
    /\ ScenarioTwoOne
    /\ Within(prediction.ret.val, Dec(79675, 1000000), Dec(79677, 1000000))

(***************************************************************************)
(* Several calls on one MatchSimulator: after a run_simulations call has   *)
(* returned, its caller keeps the result and calls run_simulations again,  *)
(* or simulate_match.                                                      *)
(***************************************************************************)
AgainCounts == {0, 1}

InitCalls ==
    /\ home_team \in {TeamA, ZeroDefence}
    /\ away_team = NoAttack
    /\ Idle

\* a later run_simulations call: the caller holds the earlier result
RunSimulationsAgain ==
    /\ pc = "returned"
    /\ held = None
    /\ \E n \in AgainCounts :
          /\ num_simulations' = n
          /\ results' = InitialResults(home_team, away_team, n, neutral_venue)
    /\ held' = Through([value |-> returned, aliased |-> NewDictIsShared], results')
    /\ pc' = "loop"
    /\ trial' = 0
    /\ UNCHANGED <<caller, match, lambdas, error, returned, poisson_draws,
                   last_simulation_results, xg, prediction, comparison, lifecycle>>

\* simulate_match after a run_simulations call has returned
SimulateMatchLater ==
    /\ pc = "returned"
    /\ poisson_draws <= 2 * MaxTrials
    /\ SimulateMatchCall

NextCalls == Next \/ RunSimulationsAgain \/ SimulateMatchLater

SpecCalls == InitCalls /\ [][NextCalls]_vars

CoreTeams == {TeamA, ZeroDefence, NegDefence}

InitCore ==
    /\ home_team \in CoreTeams
    /\ away_team \in CoreTeams
    /\ Idle

\* nothing has been called
Fresh ==
    /\ pc = "idle"
    /\ match = None
    /\ prediction = None
    /\ xg = [c \in Calls |-> None]

\* the caller makes run_simulations calls only
OnlySimulations == Fresh \/ pc # "idle"

\* the caller makes calculate_expected_goals calls only
OnlyExpectedGoals ==
    /\ pc = "idle"
    /\ match = None
    /\ prediction = None

\* the caller works on a Match of its own only
OnlyMatch ==
    /\ pc = "idle"
    /\ prediction = None
    /\ xg = [c \in Calls |-> None]
    /\ IF match = None THEN TRUE ELSE (~match.played \/ completed)

NextCore ==
    \/ OnlySimulations /\ RunSimulationsCall
    \/ OnlySimulations /\ Trial
    \/ OnlySimulations /\ Finish
    \/ OnlyExpectedGoals /\ CalculateExpectedGoals
    \/ Fresh /\ PredictScoreProbability
    \/ Fresh /\ SimulateMatch
    \/ OnlyMatch /\ NewMatch
    \/ OnlyMatch /\ SetNeutralVenue
    \/ OnlyMatch /\ MatchSimulate
    \/ OnlyMatch /\ GetResult
    \/ OnlyMatch /\ GetScoreString

SpecCore == InitCore /\ [][NextCore]_vars

\* C17: no step of calculate_expected_goals, Match.simulate,
\* set_neutral_venue, get_result, simulate_match, run_simulations or
\* predict_score_probability, returning or raising, changes a field of the
\* caller's Team objects, which are also the Teams the Match refers to
C17_TeamsUnchanged ==
    [][/\ home_team' = home_team
       /\ away_team' = away_team
       /\ match' # None => (match'.home_team = home_team /\ match'.away_team = away_team)]_vars

C17_Witness ==
    /\ pc = "raised"
    /\ error = "ValueError"
    /\ poisson_draws = 1
    /\ match.home_team = NegDefence
    /\ match.away_team = TeamA

(***************************************************************************)
(* Properties of the Match object across its calls (SpecMatch)             *)
(***************************************************************************)
\* C21: a Match.simulate() call that ends in an error leaves home_goals,
\* away_goals and played exactly as they were before the call (the code
\* assigns the home draw to home_goals before the away draw raises)
C21_FailedSimulateLeavesScore ==
    [][(match # None /\ match' # None /\ error' # "None") =>
          /\ match'.home_goals = match.home_goals
          /\ match'.away_goals = match.away_goals
          /\ match'.played = match.played]_vars

\* C22: after any sequence of construction, set_neutral_venue and simulate
\* calls home_advantage_factor is 1.0 exactly when neutral_venue is true and
\* 1.2 exactly when it is false, and a Match switched with
\* set_neutral_venue(x) simulates with the rates of a Match constructed
\* with neutral_venue = x
C22_FactorFollowsVenue ==
    [][/\ match' # None =>
             /\ (match'.home_advantage_factor = ONE) <=> match'.neutral_venue
             /\ (match'.home_advantage_factor = HOME_ADVANTAGE) <=> ~match'.neutral_venue
       /\ (lambdas' # lambdas /\ match.neutral_venue # neutral_venue) =>
             lambdas' = ExpectedGoals(Match(match.home_team, match.away_team,
                                            match.neutral_venue))]_vars

C22_Witness ==
    /\ match # None
    /\ match.neutral_venue # neutral_venue
    /\ match.played
    /\ lambdas # None
    /\ lambdas = ExpectedGoals(Match(home_team, away_team, match.neutral_venue))
    /\ lambdas # ExpectedGoals(Match(home_team, away_team, neutral_venue))

NonNegativeInt(n) == n \in Nat

\* C23: in every reachable state of a Match home_goals and away_goals are
\* non-negative integers, both 0 while played is false; played never goes
\* back from true to false; set_neutral_venue leaves home_goals, away_goals
\* and played unchanged, so get_result still reports the score drawn under
\* the previous venue
C23_ScoreAndPlayed ==
    [][/\ match' # None =>
             /\ NonNegativeInt(match'.home_goals)
             /\ NonNegativeInt(match'.away_goals)
             /\ ~match'.played => (match'.home_goals = 0 /\ match'.away_goals = 0)
       /\ (match # None /\ match.played) => match'.played
       /\ (match # None /\ match'.neutral_venue # match.neutral_venue) =>
             /\ match'.home_goals = match.home_goals
             /\ match'.away_goals = match.away_goals
             /\ match'.played = match.played
             /\ get_result(match') = get_result(match)]_vars

(***************************************************************************)
(* One MatchSimulator used for any sequence of calls: run_simulations      *)
(* calls that return or raise, each followed by further calls,             *)
(* simulate_match at any point between them, and plot_simulation_results   *)
(* with or without a results argument.                                     *)
(***************************************************************************)
\* plot_simulation_results up to the choice of the dict that is plotted
plot_simulation_results_PlotsNone(last, arg) == [err |-> "None", plotted |-> last]

plot_simulation_results(last, arg) ==
    IF arg = None
    THEN IF last = None
         THEN [err |-> "ValueError"]
         ELSE [err |-> "None", plotted |-> last]
    ELSE [err |-> "None", plotted |-> arg]

\* a run_simulations call after one that raised
RunSimulationsRetry ==
    /\ pc = "raised"
    /\ \E n \in AgainCounts :
          /\ num_simulations' = n
          /\ results' = InitialResults(home_team, away_team, n, neutral_venue)
    /\ held' = Through(held, results')
    /\ pc' = "loop"
    /\ trial' = 0
    /\ error' = "None"
    /\ UNCHANGED <<caller, match, lambdas, returned, poisson_draws,
                   last_simulation_results, xg, prediction, comparison, lifecycle>>

\* simulate_match after a run_simulations call has raised
SimulateMatchAfterRaise ==
    /\ pc = "raised"
    /\ poisson_draws <= 2 * MaxTrials
    /\ SimulateMatchCall

\* the dicts the caller can pass: none, or a result it was given
PlotArguments == {None} \cup ({returned} \ {None}) \cup (IF held = None THEN {} ELSE {held.value})

\* plot_simulation_results(results) between two other calls
PlotSimulationResults ==
    /\ pc \in {"idle", "returned", "raised"}
    /\ \E arg \in PlotArguments :
          observed' = [call |-> "plot_simulation_results", arg |-> arg,
                       ret |-> plot_simulation_results(last_simulation_results, arg)]
    /\ UNCHANGED <<caller, simulation, match, lambdas, error, poisson_draws, xg,
                   prediction, comparison, completed, held>>

NextSimulator ==
    \/ Next
    \/ RunSimulationsAgain
    \/ RunSimulationsRetry
    \/ SimulateMatch
    \/ SimulateMatchLater
    \/ SimulateMatchAfterRaise
    \/ PlotSimulationResults

SpecSimulator == InitCalls /\ [][NextSimulator]_vars

\* C24: last_simulation_results is None if no run_simulations call has
\* returned normally, and otherwise is the result of the most recent call
\* that returned normally: a normal return stores the dict it returns, and
\* simulate_match, plot_simulation_results and every step of a
\* run_simulations call that raises leave it unchanged
C24_LastResultIsLatestReturn ==
    [][/\ (returned' = None) => (last_simulation_results' = None)
       /\ (pc = "loop" /\ pc' = "returned") =>
             /\ last_simulation_results' = returned'
             /\ returned' = results'
             /\ returned'.num_simulations = num_simulations
       /\ ~(pc = "loop" /\ pc' = "returned") =>
             /\ last_simulation_results' = last_simulation_results
             /\ returned' = returned]_vars

C24_Witness ==
    /\ pc = "raised"
    /\ match # None
    /\ held # None
    /\ last_simulation_results # None
    /\ last_simulation_results = returned
    /\ last_simulation_results = held.value
    /\ results.num_simulations = 0
    /\ error = "ZeroDivisionError"

\* C25: plot_simulation_results called without a results argument raises
\* ValueError exactly when no run_simulations call has yet returned normally
\* on the MatchSimulator; once one has, the call plots the stored last
\* result and does not raise that error in any later state
C25_PlotRaisesOnlyBeforeFirstReturn ==
    [][/\ (plot_simulation_results(last_simulation_results', None).err = "ValueError")
             <=> (returned' = None)
       /\ (returned # None) =>
             /\ returned' # None
             /\ plot_simulation_results(last_simulation_results', None)
                   = [err |-> "None", plotted |-> returned']
       /\ (observed' # observed /\ observed'.arg = None) =>
             ((observed'.ret.err = "ValueError") <=> (returned = None))]_vars

C25_Witness ==
    /\ observed # None
    /\ observed.arg = None
    /\ observed.ret.err = "None"
    /\ held # None
    /\ pc = "returned"
    /\ observed.ret.plotted = returned
    /\ observed.ret.plotted # held.value

(***************************************************************************)
(* Properties of the aggregates of a run_simulations result (SpecRank)     *)
(***************************************************************************)
MaxParsedGoals == 3

\* the goals <<h, a>> a score_counts key 'h-a' stands for
ParseScoreLine(key) ==
    CHOOSE p \in (0..MaxParsedGoals) \X (0..MaxParsedGoals) : ScoreLine(p[1], p[2]) = key

\* what a match of h-a goals adds to an aggregate
Weight(aggregate, x, h, a) ==
    CASE aggregate = "home_goal_counts" -> IF h = x THEN 1 ELSE 0
      [] aggregate = "away_goal_counts" -> IF a = x THEN 1 ELSE 0
      [] aggregate = "home_wins" -> IF h > a THEN 1 ELSE 0
      [] aggregate = "away_wins" -> IF a > h THEN 1 ELSE 0
      [] aggregate = "draws" -> IF h = a THEN 1 ELSE 0
      [] aggregate = "home_goals" -> h
      [] aggregate = "away_goals" -> a
      [] aggregate = "high_scoring" -> IF h + a >= 4 THEN 1 ELSE 0
      [] aggregate = "low_scoring" -> IF h + a <= 1 THEN 1 ELSE 0

\* the sum over score_counts of count times weight
RECURSIVE Projection(_, _, _)
Projection(score_counts, aggregate, x) ==
    IF score_counts = <<>> THEN 0
    ELSE (CHOOSE w \in {Weight(aggregate, x, p[1], p[2])
                        : p \in {ParseScoreLine(score_counts[1][1])}} : TRUE)
            * score_counts[1][2]
         + Projection(Tail(score_counts), aggregate, x)

\* C26: every aggregate of a run_simulations result is a projection of
\* score_counts: home_goal_counts[h] is the sum of score_counts['h-a'] over
\* all a (and symmetrically away_goal_counts), home_wins / away_wins / draws
\* are the sums over the keys with h > a / a > h / h = a, and home_goals and
\* away_goals are the sums of h * count and a * count
C26_AggregatesProjectScoreCounts ==
    results # None =>
       /\ \A x \in 0..(MaxParsedGoals + 1) :
             /\ DictGet(results.home_goal_counts, x, 0)
                   = Projection(results.score_counts, "home_goal_counts", x)
             /\ DictGet(results.away_goal_counts, x, 0)
                   = Projection(results.score_counts, "away_goal_counts", x)
       /\ \A j \in 1..Len(results.home_goal_counts) :
             /\ results.home_goal_counts[j][1] \in 0..MaxParsedGoals
             /\ results.home_goal_counts[j][2] > 0
       /\ \A j \in 1..Len(results.away_goal_counts) :
             /\ results.away_goal_counts[j][1] \in 0..MaxParsedGoals
             /\ results.away_goal_counts[j][2] > 0
       /\ results.home_wins = Projection(results.score_counts, "home_wins", 0)
       /\ results.away_wins = Projection(results.score_counts, "away_wins", 0)
       /\ results.draws = Projection(results.score_counts, "draws", 0)
       /\ results.home_goals = Projection(results.score_counts, "home_goals", 0)
       /\ results.away_goals = Projection(results.score_counts, "away_goals", 0)

C26_Witness ==
    /\ pc = "returned"
    /\ returned = results
    /\ Len(results.score_counts) = MaxScorelines
    /\ SumValues(results.score_counts) > MaxScorelines + 1
    /\ DictGet(results.home_goal_counts, 2, 0) > 3
    /\ results.home_wins > 0
    /\ results.away_wins > results.home_wins
    /\ results.draws > 2
    /\ results.away_goals > results.home_goals

\* the float x is the quotient n / d of two integers, d > 0
IsQuotient(x, n, d) == x = FDiv(FromInt(n), FromInt(d))

\* 0.0 <= x <= 1.0
InUnitInterval(x) == ~FLt(x, Zero(0)) /\ ~FLt(ONE, x)

\* C27: for N >= 1 and valid inputs home_win_prob, away_win_prob and
\* draw_prob each equal their counter divided by N and lie in [0, 1], the
\* three counters add up to N (so the three probabilities sum to 1 in exact
\* arithmetic), and avg_home_goals and avg_away_goals equal the goal totals
\* divided by N
C27_ProbabilitiesAreCountsOverN ==
    (pc = "returned" /\ num_simulations >= 1) =>
       /\ IsQuotient(returned.home_win_prob, returned.home_wins, num_simulations)
       /\ IsQuotient(returned.away_win_prob, returned.away_wins, num_simulations)
       /\ IsQuotient(returned.draw_prob, returned.draws, num_simulations)
       /\ InUnitInterval(returned.home_win_prob)
       /\ InUnitInterval(returned.away_win_prob)
       /\ InUnitInterval(returned.draw_prob)
       /\ returned.home_wins + returned.away_wins + returned.draws = num_simulations
       /\ returned.home_wins = Projection(returned.score_counts, "home_wins", 0)
       /\ returned.away_wins = Projection(returned.score_counts, "away_wins", 0)
       /\ returned.draws = Projection(returned.score_counts, "draws", 0)
       /\ IsQuotient(returned.avg_home_goals, returned.home_goals, num_simulations)
       /\ IsQuotient(returned.avg_away_goals, returned.away_goals, num_simulations)
       /\ returned.home_goals = Projection(returned.score_counts, "home_goals", 0)
       /\ returned.away_goals = Projection(returned.score_counts, "away_goals", 0)

C27_Witness ==
    /\ pc = "returned"
    /\ num_simulations = 7
    /\ returned.home_wins = 1
    /\ returned.away_wins = 4
    /\ returned.draws = 2
    /\ returned.home_win_prob = Dec(1, 7)
    /\ FLt(Zero(0), returned.away_win_prob)
    /\ FLt(returned.away_win_prob, ONE)
    /\ FLt(ONE, returned.avg_away_goals)

(***************************************************************************)
(* The size of the home/away swing: calculate_expected_goals called for    *)
(* both sides and both roles of one fixture.                               *)
(***************************************************************************)
SwingTeams == {TeamA, TeamB, TeamC, TeamD, NoAttack, ZeroDefence}

InitSwing ==
    /\ home_team \in SwingTeams
    /\ away_team \in SwingTeams
    /\ Idle

SpecSwing == InitSwing /\ [][CalculateExpectedGoals]_vars

\* 1.44 = 1.2^2 and 2.0736 = 1.2^4
AdvantageSquared == Dec(144, 100)
AdvantageFourth == Dec(20736, 10000)

\* 1 - 1e-9 and 1 + 1e-9
JustBelowOne == Dec(999999999, 1000000000)
JustAboveOne == Dec(1000000001, 1000000000)

\* x is y to a relative error of 1e-9 (y >= 0)
Near(x, y) == ~FLt(x, FMul(y, JustBelowOne)) /\ ~FLt(FMul(y, JustAboveOne), x)

\* the value just returned for call c, a valid team and a valid opponent at
\* a non-neutral venue
NewlyReturned(c) ==
    /\ ~neutral_venue
    /\ xg[c] = None
    /\ xg'[c] # None
    /\ xg'[c].err = "None"
    /\ ValidAttack(CallTeam(c))
    /\ GoodDefence(CallOpponent(c))

\* the value of the same team and opponent at a neutral venue
NeutralXg(c) == calculate_expected_goals(CallTeam(c), CallOpponent(c), c[2], TRUE).val

\* C28 as stated: at a non-neutral venue, for a valid team and opponent, the
\* home-role value equals 1.44 times the neutral-venue value, the away-role
\* value equals the neutral-venue value divided by 1.44, and the home-role
\* value equals 2.0736 times the away-role value
C28_SwingIsAdvantageFourth_AsStated ==
    [][\A c \in Calls :
          NewlyReturned(c) =>
             \E n \in {NeutralXg(c)} :
                /\ c[2] => xg'[c].val = FMul(AdvantageSquared, n)
                /\ ~c[2] => xg'[c].val = FDiv(n, AdvantageSquared)
                /\ (c[2] /\ Returned(<<c[1], FALSE>>)) =>
                      xg'[c].val = FMul(AdvantageFourth, xg[<<c[1], FALSE>>].val)]_vars

\* C28 amended: the same three equalities to within binary64 rounding (a
\* relative error of 1e-9), exactly 2.592 and 1.25 for teams A and B; and
\* for a positive attack the home-role value is neither 1.2 nor 1.44 times
\* the away-role value
C28_SwingIsAdvantageFourth ==
    [][\A c \in Calls :
          NewlyReturned(c) =>
             \E n \in {NeutralXg(c)} :
                /\ c[2] => Near(xg'[c].val, FMul(AdvantageSquared, n))
                /\ ~c[2] => Near(xg'[c].val, FDiv(n, AdvantageSquared))
                /\ ScenarioAB(c) => xg'[c].val = IF c[2] THEN HomeXgAB ELSE AwayXgAB
                /\ (c[2] /\ Returned(<<c[1], FALSE>>)) =>
                      \E a \in {xg[<<c[1], FALSE>>].val} :
                         /\ Near(xg'[c].val, FMul(AdvantageFourth, a))
                         /\ FLt(Zero(0), CallTeam(c).avg_xg_for) =>
                               /\ ~Near(xg'[c].val, FMul(HOME_ADVANTAGE, a))
                               /\ ~Near(xg'[c].val, FMul(AdvantageSquared, a))]_vars

C28_Witness ==
    /\ ~neutral_venue
    /\ home_team = TeamC
    /\ away_team = TeamD
    /\ Returned(<<TRUE, TRUE>>)
    /\ Returned(<<TRUE, FALSE>>)
    /\ Near(xg[<<TRUE, TRUE>>].val, FMul(AdvantageFourth, xg[<<TRUE, FALSE>>].val))
    /\ xg[<<TRUE, TRUE>>].val # FMul(AdvantageFourth, xg[<<TRUE, FALSE>>].val)

(***************************************************************************)
(* The dashboard (src/Soccer xG Sim/streamlit_app.py): the 'Match          *)
(* Statistics' and 'Match Dynamics' figures written from the result of the *)
(* run_simulations call the page has just made.                            *)
(***************************************************************************)
\* the float y (0 <= y < 2^52) times 10, rounded to the nearest integer,
\* ties to even: the digits of f"{y:.1f}"
Tenths(y0) ==
    CHOOSE r \in {
        IF IsZero(y) THEN 0
        ELSE CHOOSE t \in {
                Limb(q, 1) + (Base * Limb(q, 2))
                + (IF c > 0 \/ (c = 0 /\ Limb(q, 1) % 2 = 1) THEN 1 ELSE 0)
                : q \in {Shr(BigMulSmall(y.man, 10), 0 - y.exp)},
                  c \in {BigCmp(BigSub(BigMulSmall(y.man, 10),
                                       Shl(Shr(BigMulSmall(y.man, 10), 0 - y.exp), 0 - y.exp)),
                                Shl(<<1>>, (0 - y.exp) - 1))}} : TRUE
        : y \in {y0}} : TRUE

\* f"{x:.1%}": x * 100 as a float, written with one decimal and a % sign
FormatPercent(x) ==
    CHOOSE s \in {
        ToString(t \div 10) \o "." \o ToString(t % 10) \o "%"
        : t \in {Tenths(FMul(x, FromInt(100)))}} : TRUE

\* sum(map(int, score.split('-')))
TotalGoals(score) ==
    CHOOSE n \in {p[1] + p[2] : p \in {ParseScoreLine(score)}} : TRUE

\* sum(1 for score in score_counts.keys() if total >= 4)
high_scoring(score_counts) ==
    Cardinality({j \in 1..Len(score_counts) : TotalGoals(score_counts[j][1]) >= 4})

\* sum(1 for score in score_counts.keys() if total <= 1)
low_scoring(score_counts) ==
    Cardinality({j \in 1..Len(score_counts) : TotalGoals(score_counts[j][1]) <= 1})

\* sum(count for score, count in items if all(int(g) > 0 ...))
RECURSIVE both_score(_)
both_score(score_counts) ==
    IF score_counts = <<>> THEN 0
    ELSE (CHOOSE n \in {IF p[1] > 0 /\ p[2] > 0 THEN score_counts[1][2] ELSE 0
                        : p \in {ParseScoreLine(score_counts[1][1])}} : TRUE)
         + both_score(Tail(score_counts))

\* sum(count for score, count in items if total > 2.5)
RECURSIVE over_2_5(_)
over_2_5(score_counts) ==
    IF score_counts = <<>> THEN 0
    ELSE (IF 2 * TotalGoals(score_counts[1][1]) > 5 THEN score_counts[1][2] ELSE 0)
         + over_2_5(Tail(score_counts))

\* the figure written for a number of matches out of num_simulations
Figure(matches, n) == FormatPercent(FDiv(FromInt(matches), FromInt(n)))

\* the page after run_simulations has returned
DetailedStatistics ==
    /\ pc = "returned"
    /\ observed = None
    /\ observed' =
          [call |-> "dashboard",
           high_scoring |-> Figure(high_scoring(returned.score_counts), num_simulations),
           low_scoring |-> Figure(low_scoring(returned.score_counts), num_simulations),
           both_score |-> Figure(both_score(returned.score_counts), num_simulations),
           over_2_5 |-> Figure(over_2_5(returned.score_counts), num_simulations)]
    /\ UNCHANGED <<caller, simulation, match, lambdas, error, poisson_draws, xg,
                   prediction, comparison, completed, held>>

NextDashboard == Finish \/ DetailedStatistics

SpecDashboard == InitRank /\ [][NextDashboard]_vars

\* C29: the figures 'High-scoring matches (4+ goals)' and 'Low-scoring
\* matches (<=1 goal)' are the fractions of the N simulated matches whose
\* total goals are >= 4 and <= 1, that is the sums of score_counts over
\* those scorelines divided by N (the code divides the number of distinct
\* scorelines by N)
C29_ScoringFiguresAreMatchFractions ==
    (observed # None) =>
       /\ observed.high_scoring
             = Figure(Projection(returned.score_counts, "high_scoring", 0), num_simulations)
       /\ observed.low_scoring
             = Figure(Projection(returned.score_counts, "low_scoring", 0), num_simulations)

(***************************************************************************)
(* class TeamManager (src/soccer_xg_sim_dlp.py): load_teams called any     *)
(* number of times with lists of team entries.  A Team is kept with the    *)
(* fields its data-frame row reads; a pandas DataFrame is the record of    *)
(* its sequence of rows.                                                   *)
(***************************************************************************)
MaxTeams == 3

\* entries of teams_data['teams'] as the JSON loader parsed them
DataA ==
    [name |-> "Team A", season |-> "2024-2025", league |-> "League One",
     stats |-> [matches_played |-> 38, goals_for |-> 70, goals_against |-> 35,
                avg_xg_for |-> Dec(180, 100), xg_efficiency |-> Dec(100, 100),
                defensive_efficiency |-> Dec(100, 100)]]

DataC ==
    [name |-> "Team C", season |-> "2023-2024", league |-> "League Two",
     stats |-> [matches_played |-> 34, goals_for |-> 88, goals_against |-> 30,
                avg_xg_for |-> Dec(235, 100), xg_efficiency |-> Dec(110, 100),
                defensive_efficiency |-> Dec(95, 100)]]

\* an entry without its 'stats' key
DataNoStats == [name |-> "Team F", season |-> "2018-2019", league |-> "League One"]

\* an entry of a team that has played no match
DataUnplayed ==
    [name |-> "Team G", season |-> "2025-2026", league |-> "League Two",
     stats |-> [matches_played |-> 0, goals_for |-> 0, goals_against |-> 0,
                avg_xg_for |-> Dec(150, 100), xg_efficiency |-> Dec(100, 100),
                defensive_efficiency |-> Dec(100, 100)]]

TeamsData ==
    UNION {[1..n -> {DataA, DataC, DataNoStats, DataUnplayed}] : n \in 0..MaxTeams}

\* Team.__init__(data): KeyError for a missing key, ZeroDivisionError for
\* goals_for / matches_played with no match played
TeamFromData(data) ==
    IF "stats" \notin DOMAIN data THEN [err |-> "KeyError"]
    ELSE IF data.stats.matches_played = 0 THEN [err |-> "ZeroDivisionError"]
    ELSE [err |-> "None",
          val |-> [name |-> data.name, season |-> data.season, league |-> data.league,
                   matches_played |-> data.stats.matches_played,
                   goals_for |-> data.stats.goals_for,
                   goals_against |-> data.stats.goals_against,
                   avg_xg_for |-> data.stats.avg_xg_for,
                   xg_efficiency |-> data.stats.xg_efficiency,
                   defensive_efficiency |-> data.stats.defensive_efficiency]]

\* Team.to_dataframe_row
to_dataframe_row(team) ==
    [name |-> team.name, season |-> team.season, league |-> team.league,
     matches_played |-> team.matches_played,
     avg_xg_for |-> team.avg_xg_for, xg_efficiency |-> team.xg_efficiency,
     defensive_efficiency |-> team.defensive_efficiency]

\* [Team(team_data) for team_data in teams_data['teams']]: the list, or the
\* exception of the first entry that raises
TeamList(teams_data) ==
    IF \E j \in 1..Len(teams_data) : TeamFromData(teams_data[j]).err # "None"
    THEN [err |-> TeamFromData(teams_data[
                     CHOOSE j \in 1..Len(teams_data) :
                        /\ TeamFromData(teams_data[j]).err # "None"
                        /\ \A k \in 1..(j - 1) : TeamFromData(teams_data[k]).err = "None"]).err]
    ELSE [err |-> "None",
          val |-> [j \in 1..Len(teams_data) |-> TeamFromData(teams_data[j]).val] \o <<>>]

\* TeamManager.create_dataframe: the value of self.teams_df afterwards
create_dataframe(self_teams, self_teams_df) ==
    IF self_teams = <<>>
    THEN self_teams_df
    ELSE [rows |-> [j \in 1..Len(self_teams) |-> to_dataframe_row(self_teams[j])] \o <<>>]

InitManager ==
    /\ home_team = TeamA
    /\ away_team = TeamC
    /\ Idle

\* TeamManager.load_teams(teams_data)
LoadTeams ==
    /\ \E teams_data \in TeamsData :
       \E o \in {TeamList(teams_data)} :
          IF o.err # "None"
          THEN /\ error' = o.err
               /\ UNCHANGED <<teams, teams_df>>
          ELSE /\ teams' = o.val
               /\ teams_df' = create_dataframe(o.val, teams_df)
               /\ error' = "None"
    /\ UNCHANGED <<home_team, away_team, neutral_venue, simulation, match, lambdas,
                   poisson_draws, xg, prediction, comparison, lifecycle, held>>

SpecManager == InitManager /\ [][LoadTeams]_vars

\* the rows of a data frame; none before the first data frame is made
Rows(df) == IF df = None THEN <<>> ELSE df.rows

\* C30: after any sequence of load_teams calls teams_df describes exactly
\* the teams of the most recent load, one row per element of teams in the
\* same order; after loading an empty list following a non-empty one it
\* holds no rows of the earlier load (the code keeps the earlier data frame)
C30_FrameDescribesTeams ==
    /\ Len(Rows(teams_df)) = Len(teams)
    /\ \A j \in 1..Len(teams) : Rows(teams_df)[j] = to_dataframe_row(teams[j])

====
